---- MODULE Spec2Model ----
(***************************************************************************)
(* Synergy game server (Synergy/server/index.js): rooms, round timer,      *)
(* submissions, AI teammate, inactivity close, rematch and leave.          *)
(*                                                                         *)
(* Node.js runs every handler and timer callback to completion, except at  *)
(* an `await` of the AI request, where the handler is suspended and any    *)
(* other handler or callback may run before it resumes.  One action of     *)
(* this model is one such run-to-completion segment.                       *)
(*                                                                         *)
(* A room object lives on the heap as long as something refers to it: the  *)
(* registry `rooms`, a suspended handler (its closure variable `room`/`r`) *)
(* or one of its pending timers.  Display names are left out: nothing in   *)
(* the server reads them back.  room.prevBot is left out: it is written    *)
(* and never read.                                                         *)
(***************************************************************************)
EXTENDS Integers, Sequences, FiniteSets, Bags, TLC

\* ---------------------------------------------------------------- bounds
MaxRooms   == 2    \* room objects on the heap at once (OverwriteSpec)
MaxLive    == 1    \* room objects on the heap at once in Spec and CrowdSpec
NumCodes   == 2    \* distinct codes nanoid() can return
MaxRounds  == 2    \* rounds kept in one room's history
MaxPending == 2    \* handlers suspended on the AI request at once
MaxDefer   == 1    \* setTimeout(..., 0) closes pending at once

\* ------------------------------------------------------------- vocabulary
Sockets == {"s1", "s2", "s3"}
\* the sockets that connect in Spec; all of Sockets connect in CrowdSpec
Clients == {"s1", "s2"}
Bot     == "bot"
Ids     == Sockets \cup {Bot}
NoSock  == "none"
Codes   == 1 .. NumCodes
\* the codes nanoid() returns in Spec and CrowdSpec, where one room is live
\* at a time; all of Codes are returned in OverwriteSpec
OneCode == {1}
RoomIds == 1 .. MaxRooms
NoRoom  == 0
NoCode  == 0

NoGuess == "(no guess)"
Unset   == "<undefined>"
\* what a client can send as `word`
RawWords == {"", "apple", " Apple ", "pear", "(no guess)"}
\* what the AI service can return as `choice`
AIWords == {"apple", "pear"}
\* the local default of maybeMakeBotSubmission
FallbackWord == "apple"

\* String.prototype.trim on the vocabulary
Trim(w) == IF w = " Apple " THEN "Apple" ELSE w

\* String.prototype.toLowerCase on the vocabulary
ToLower(w) == IF w = "Apple" THEN "apple" ELSE IF w = " Apple " THEN " apple " ELSE w

LeaveTexts == {"Your teammate returned to the lobby", "Your teammate left the room"}
DisconnectText == "Your teammate disconnected"
AfkText == "Room closed due to inactivity"

VARIABLES
  rooms,        \* the registry: code -> room object (NoRoom: no entry)
  heap,         \* room objects
  currentRoom,  \* per connection: the closure variable currentRoom
  connected,    \* per connection: is the socket connected
  pending,      \* bag of handlers suspended in `await maybeMakeBotSubmission`
  deferred      \* bag of pending setTimeout(() => closeRoom(code, ...), 0)

vars == <<rooms, heap, currentRoom, connected, pending, deferred>>

\* ------------------------------------------------------------ room object
NewRoom(code, ai, status) ==
  [ used         |-> TRUE,
    code         |-> code,
    players      |-> << >>,
    submissions  |-> [i \in Ids |-> Unset],
    history      |-> << >>,
    status       |-> status,
    winnerRound  |-> 0,
    rematchReady |-> {},
    roundTimer   |-> "null",
    deadline     |-> "null",
    afkTimer     |-> "null",
    idle         |-> FALSE,
    closing      |-> FALSE,
    ai           |-> ai ]

BlankRoom == [NewRoom(NoCode, FALSE, "lobby") EXCEPT !.used = FALSE]

\* Map.set(id, ...): a new key goes last, an existing key keeps its place
PlayersSet(players, id) ==
  IF \E i \in 1 .. Len(players) : players[i] = id THEN players ELSE Append(players, id)

PlayerIds(room) == {room.players[i] : i \in 1 .. Len(room.players)}

\* Object.keys(room.submissions)
SubmissionKeys(room) == {i \in Ids : room.submissions[i] # Unset}

\* ----------------------------------------------------------------- events
\* the snapshot of no room: what an event other than room:update carries
NoSnapshot ==
  [code |-> NoCode, players |-> << >>, history |-> << >>, status |-> "",
   winnerRound |-> 0, rematchReady |-> {}, deadline |-> "null"]

Ev(ev, chan, sock, room, round, word, text, via) ==
  [ev |-> ev, chan |-> chan, sock |-> sock, room |-> room, round |-> round,
   word |-> word, text |-> text, via |-> via, snap |-> NoSnapshot]

\* io.to(code).emit(ev, ...)
ToRoom(ev, code, room, round, word, text, via) ==
  Ev(ev, code, NoSock, room, round, word, text, via)

\* socket.emit / ack / io.to(socketId).emit
ToSocket(ev, sock, text) == Ev(ev, NoCode, sock, NoRoom, 0, "", text, "")

Emit(W, e) == [W EXCEPT !.emitted = Append(@, e)]

Events(seq) == {seq[i] : i \in 1 .. Len(seq)}

\* ------------------------------------------------- suspended handlers (bag)
\* A handler suspended in maybeMakeBotSubmission: req is the body of the
\* request it waits for, phase tells which of the three awaits of
\* maybeMakeBotSubmission it is at ("first": the request of the try block,
\* "second": getRandomWord after a reply without a choice, "catch":
\* getRandomWord of the catch block), attempt is postJSON's retry counter.
\* A specification that resumes the handler in one step, with whatever word
\* the requests can end in, keeps NoRequest in place of the body.
NoRequest == [fn |-> "none", prev_human |-> "<undefined>", prev_bot |-> "<undefined>", exclude |-> {}]

Cont(kind, room, sock, req) ==
  [kind |-> kind, room |-> room, sock |-> sock, stale |-> FALSE,
   phase |-> "first", attempt |-> 0, req |-> req]

BagAdd(B, e) == B (+) SetToBag({e})
BagRemove(B, e) == B (-) SetToBag({e})

\* A suspended handler of room object r is superseded once the round it was
\* suspended in is over (resolved or restarted) or the room is closing.
Supersede(W, r) ==
  LET S == BagToSet(W.pending)
      f(e) == IF e.room = r THEN [e EXCEPT !.stale = TRUE] ELSE e
      T == {f(e) : e \in S}
      cnt(t) == (IF t \in S THEN W.pending[t] ELSE 0)
                + (IF t.room = r /\ [t EXCEPT !.stale = FALSE] \in S
                   THEN W.pending[[t EXCEPT !.stale = FALSE]] ELSE 0)
  IN [W EXCEPT !.pending = [t \in T |-> cnt(t)]]

\* ------------------------------------------------------- server functions
\* getRoom(code)
getRoom(W, code) == IF code = NoCode THEN NoRoom ELSE W.rooms[code]

\* getPartnerId(room, me): the first key of room.players that is not me
getPartnerId(room, me) ==
  LET others == {i \in 1 .. Len(room.players) : room.players[i] # me}
  IN IF others = {} THEN NoSock
     ELSE room.players[CHOOSE i \in others : \A j \in others : i <= j]

\* snapshot with the words of the running round in it: the variant C28 must
\* tell from snapshot
snapshotWithSubmissions(W, code) ==
  LET r == getRoom(W, code)
  IN IF r = NoRoom THEN NoSnapshot
     ELSE [code |-> code, players |-> W.heap[r].players, history |-> W.heap[r].history,
           status |-> W.heap[r].status, submissions |-> W.heap[r].submissions]

\* snapshot(code): the payload of room:update
snapshot(W, code) ==
  LET r == getRoom(W, code)
  IN IF r = NoRoom THEN NoSnapshot
     ELSE [code         |-> code,
           players      |-> W.heap[r].players,
           history      |-> W.heap[r].history,
           status       |-> W.heap[r].status,
           winnerRound  |-> W.heap[r].winnerRound,
           rematchReady |-> W.heap[r].rematchReady,
           deadline     |-> W.heap[r].deadline]

\* broadcast(code, tag): room:update with the snapshot, unless missing or closing
broadcast(W, code, tag) ==
  LET r == getRoom(W, code)
      s == snapshot(W, code)
  IN IF r = NoRoom \/ W.heap[r].closing THEN W
     ELSE IF s.code = NoCode THEN W
     ELSE Emit(W, [ToRoom("room:update", code, r, 0, "", tag, "") EXCEPT !.snap = s])

\* clearRoundTimer without clearTimeout(room.roundTimer): the variant C29
\* must tell from clearRoundTimer
clearRoundTimerKeepsTimer(room) == [room EXCEPT !.deadline = "null"]

clearRoundTimer(room) == [room EXCEPT !.roundTimer = "null", !.deadline = "null"]

clearAfk(room) == [room EXCEPT !.afkTimer = "null"]

\* closeRoom(code, reasonText, reason)
closeRoom(W, code, reasonText) ==
  LET r == getRoom(W, code)
  IN IF r = NoRoom THEN W
     ELSE LET W1 == [W EXCEPT !.heap[r] = clearAfk(clearRoundTimer([@ EXCEPT !.closing = TRUE]))]
              W2 == Emit(Supersede(W1, r), ToRoom("room:closed", code, r, 0, "", reasonText, ""))
          IN [W2 EXCEPT !.rooms[code] = NoRoom]

\* touch(code): lastActivity = Date.now()
touch(W, code) ==
  LET r == getRoom(W, code)
  IN IF r # NoRoom /\ ~W.heap[r].closing THEN [W EXCEPT !.heap[r].idle = FALSE] ELSE W

\* bumpAfk(code, tag)
bumpAfk(W, code) ==
  LET r == getRoom(W, code)
  IN IF r = NoRoom \/ W.heap[r].closing THEN W
     ELSE LET W1 == touch(W, code)
          IN [W1 EXCEPT !.heap[r] = [clearAfk(@) EXCEPT !.afkTimer = "armed"]]

\* getUsedWordsFromHistory(room)
getUsedWordsFromHistory(room) ==
  {ToLower(room.history[h].pairs[p].word) :
     <<h, p>> \in {<<h, p>> \in (1 .. Len(room.history)) \X (1 .. 2) :
                     /\ p <= Len(room.history[h].pairs)
                     /\ room.history[h].pairs[p].word # ""
                     /\ room.history[h].pairs[p].word # NoGuess}}

\* getPrevRoundWords(room)
getPrevRoundWords(room) ==
  IF Len(room.history) = 0 THEN [prevHuman |-> Unset, prevBot |-> Unset]
  ELSE LET last == room.history[Len(room.history)]
           bots == {p \in 1 .. Len(last.pairs) : last.pairs[p].id = Bot}
           hums == {p \in 1 .. Len(last.pairs) : last.pairs[p].id # Bot}
           lastOf(S) == last.pairs[CHOOSE p \in S : \A q \in S : q <= p].word
       IN [prevHuman |-> IF hums = {} THEN Unset ELSE lastOf(hums),
           prevBot   |-> IF bots = {} THEN Unset ELSE lastOf(bots)]

\* startRound that also calls bumpAfk, so that every round start counts as
\* activity: the variant C19 must tell from startRound
startRoundBumpsAfk(W, code) ==
  LET r == getRoom(W, code)
  IN IF r = NoRoom \/ W.heap[r].closing \/ W.heap[r].status # "playing" THEN W
     ELSE LET room == W.heap[r]
              r1 == [room EXCEPT !.submissions = [i \in Ids |-> Unset], !.deadline = "set"]
              W1 == Emit([W EXCEPT !.heap[r] = r1],
                         ToRoom("game:round", code, r, Len(room.history) + 1, "", r1.deadline, ""))
              r2 == [clearRoundTimer(r1) EXCEPT !.roundTimer = "armed"]
          IN bumpAfk(Supersede([W1 EXCEPT !.heap[r] = r2], r), code)

\* startRound without its setTimeout: the variant C6 must tell from startRound
startRoundNoTimer(W, code) ==
  LET r == getRoom(W, code)
  IN IF r = NoRoom \/ W.heap[r].closing \/ W.heap[r].status # "playing" THEN W
     ELSE LET room == W.heap[r]
              r1 == [room EXCEPT !.submissions = [i \in Ids |-> Unset], !.deadline = "set"]
              W1 == Emit([W EXCEPT !.heap[r] = r1],
                         ToRoom("game:round", code, r, Len(room.history) + 1, "", r1.deadline, ""))
          IN Supersede([W1 EXCEPT !.heap[r] = clearRoundTimer(r1)], r)

\* startRound(code)
startRound(W, code) ==
  LET r == getRoom(W, code)
  IN IF r = NoRoom \/ W.heap[r].closing \/ W.heap[r].status # "playing" THEN W
     ELSE LET room == W.heap[r]
              r1 == [room EXCEPT !.submissions = [i \in Ids |-> Unset], !.deadline = "set"]
              W1 == Emit([W EXCEPT !.heap[r] = r1],
                         ToRoom("game:round", code, r, Len(room.history) + 1, "", r1.deadline, ""))
              r2 == [clearRoundTimer(r1) EXCEPT !.roundTimer = "armed"]
          IN Supersede([W1 EXCEPT !.heap[r] = r2], r)

\* the words of a reveal: unique = new Set(pairs.map(p => p.word.toLowerCase()))
UniqueWords(pairs) == {ToLower(pairs[p].word) : p \in 1 .. Len(pairs)}

\* allReal = pairs.every(p => p.word && p.word.toLowerCase() !== "(no guess)")
AllReal(pairs) ==
  \A p \in 1 .. Len(pairs) : pairs[p].word # "" /\ ToLower(pairs[p].word) # NoGuess

\* the win test without allReal: the variant C4 must tell from IsWin
IsWinWithoutAllReal(pairs) == Cardinality(UniqueWords(pairs)) = 1

\* unique.size === 1 && allReal
IsWin(pairs) == AllReal(pairs) /\ Cardinality(UniqueWords(pairs)) = 1

\* roundNum = history.length: the variant C1 must tell from RoundNumber
RoundNumberFromZero(room) == Len(room.history)

\* roundNum = history.length + 1
RoundNumber(room) == Len(room.history) + 1

\* the timer's pairs without the `|| "(no guess)"` default: the variant C5
\* must tell from TimerPairs
TimerPairsNoDefault(room) ==
  [i \in 1 .. Len(room.players) |->
     [id |-> room.players[i], word |-> room.submissions[room.players[i]]]]

\* pairs of the timer callback: a missing word is "(no guess)"
TimerPairs(room) ==
  [i \in 1 .. Len(room.players) |->
     [id |-> room.players[i],
      word |-> IF room.submissions[room.players[i]] # Unset
               THEN room.submissions[room.players[i]] ELSE NoGuess]]

\* pairs of game:submit
SubmitPairs(room) ==
  [i \in 1 .. Len(room.players) |->
     [id |-> room.players[i], word |-> room.submissions[room.players[i]]]]

\* The rest of the round timer callback, from `const roundNum` on; r is the
\* object the callback holds, code the code it was armed with.
TimerReveal(W, code, r) ==
  LET room == W.heap[r]
      roundNum == RoundNumber(room)
      pairs == TimerPairs(room)
      W1 == Emit(W, ToRoom("game:reveal", code, r, roundNum, "", "", "timer"))
      W2 == Supersede([W1 EXCEPT !.heap[r].history =
                         Append(@, [round |-> roundNum, pairs |-> pairs])], r)
  IN IF IsWin(pairs)
     THEN LET W3 == [W2 EXCEPT !.heap[r].status = "won", !.heap[r].winnerRound = roundNum]
              W4 == Emit(W3, ToRoom("game:win", code, r, roundNum, pairs[1].word, "", "timer"))
          IN broadcast([W4 EXCEPT !.heap[r] = clearRoundTimer(@)], code, "win")
     ELSE startRound(broadcast(W2, code, "afterReveal"), code)

\* The rest of game:submit, from `if (Object.keys(room.submissions).length ...`
SubmitReveal(W, code, r, sock) ==
  LET room == W.heap[r]
  IN IF Cardinality(SubmissionKeys(room)) = Len(room.players)
     THEN LET roundNum == RoundNumber(room)
              pairs == SubmitPairs(room)
              W1 == Emit([W EXCEPT !.heap[r] = clearRoundTimer(@)],
                         ToRoom("game:reveal", code, r, roundNum, "", "", "submit"))
              W2 == Supersede([W1 EXCEPT !.heap[r].history =
                                 Append(@, [round |-> roundNum, pairs |-> pairs])], r)
          IN IF IsWin(pairs)
             THEN LET W3 == [W2 EXCEPT !.heap[r].status = "won", !.heap[r].winnerRound = roundNum]
                      W4 == Emit(W3, ToRoom("game:win", code, r, roundNum, pairs[1].word, "", "submit"))
                  IN broadcast(W4, code, "winOnSubmit")
             ELSE startRound(broadcast(W2, code, "postSubmit"), code)
     ELSE Emit(W, Ev("game:waiting", code, sock, r, 0, "", "", "submit"))

\* maybeMakeBotSubmission(room), the part after the awaited requests: the bot
\* slot gets the service's choice or the local default, whatever became of
\* the room during the await.
maybeMakeBotSubmission(W, r, botWord) == [W EXCEPT !.heap[r].submissions[Bot] = botWord]

\* what the awaited requests can leave in botWord: a choice of the service,
\* or "apple" (no usable choice, error, timeout)
BotWords == AIWords \cup {FallbackWord}

\* postJSON(path, body, { abortMs, retries = 1 })
Retries == 1

\* getRandomWord(exclude): the body it posts
getRandomWord(exclude) ==
  [fn |-> "getRandomWord", prev_human |-> Unset, prev_bot |-> Unset, exclude |-> exclude]

\* getNextWordUsingPrev(prevHuman, prevBot, exclude, opts): the body it posts
\* (prev_human: prevHuman || null)
getNextWordUsingPrev(prevHuman, prevBot, exclude) ==
  [fn |-> "getNextWordUsingPrev",
   prev_human |-> IF prevHuman = "" THEN Unset ELSE prevHuman,
   prev_bot   |-> IF prevBot = "" THEN Unset ELSE prevBot,
   exclude    |-> exclude]

\* `!w` of a word or null
Falsy(w) == w = Unset \/ w = ""

\* maybeMakeBotSubmission(room), up to its first await: the request it sends
AiRequest(room) ==
  LET exclude == getUsedWordsFromHistory(room)
      prev == getPrevRoundWords(room)
  IN IF Falsy(prev.prevHuman) /\ Falsy(prev.prevBot)
     THEN getRandomWord(exclude)
     ELSE getNextWordUsingPrev(prev.prevHuman, prev.prevBot, exclude)

\* the body kept for the request that maybeMakeBotSubmission(room r) sends
Sent(W, r) == IF W.bodies THEN AiRequest(W.heap[r]) ELSE NoRequest

\* ------------------------------------------------------------ bookkeeping
\* The state a handler starts from.  A handler is a function from this
\* record to the record it leaves; `emitted` collects, in order, the events
\* the handler sends (they are outputs of the step, not server state).
World ==
  [rooms |-> rooms, heap |-> heap, currentRoom |-> currentRoom, connected |-> connected,
   pending |-> pending, deferred |-> deferred, emitted |-> << >>, bodies |-> FALSE]

\* the same state for a step that keeps the bodies of the requests it sends
WorldOfRequests == [World EXCEPT !.bodies = TRUE]

\* a room object is reachable from the registry, a suspended handler or a
\* pending timer of its own
Referenced(W, r) ==
  \/ \E c \in Codes : W.rooms[c] = r
  \/ \E e \in BagToSet(W.pending) : e.room = r
  \/ W.heap[r].roundTimer = "armed"
  \/ W.heap[r].afkTimer = "armed"

\* unreachable room objects are collected
Collect(W) ==
  [W EXCEPT !.heap = [r \in RoomIds |-> IF W.heap[r].used /\ Referenced(W, r)
                                         THEN W.heap[r] ELSE BlankRoom]]

WithinBounds(W) ==
  /\ \A r \in RoomIds : Len(W.heap[r].history) <= MaxRounds
  /\ BagCardinality(W.pending) <= MaxPending
  /\ BagCardinality(W.deferred) <= MaxDefer

Commit(W) ==
  /\ WithinBounds(W)
  /\ LET G == Collect(W)
     IN /\ rooms' = G.rooms
        /\ heap' = G.heap
        /\ currentRoom' = G.currentRoom
        /\ connected' = G.connected
        /\ pending' = G.pending
        /\ deferred' = G.deferred

FreeRoomIds(W) == {r \in RoomIds : ~W.heap[r].used}

\* `rooms[code] = {...}`: a new object, whatever the registry held under code
Allocate(W, code, room) ==
  LET r == CHOOSE x \in FreeRoomIds(W) : \A y \in FreeRoomIds(W) : x <= y
  IN [W EXCEPT !.heap[r] = room, !.rooms[code] = r]

\* ------------------------------------------------------------------ Init
Init ==
  /\ rooms = [c \in Codes |-> NoRoom]
  /\ heap = [r \in RoomIds |-> BlankRoom]
  /\ currentRoom = [s \in Sockets |-> NoCode]
  /\ connected = [s \in Sockets |-> s \in Clients]
  /\ pending = EmptyBag
  /\ deferred = EmptyBag


\* --------------------------------------------------------------- handlers
\* a refusal that also calls bumpAfk: the variant C9 must tell from ackError
ackErrorBumpAfk(W, s, error) ==
  Emit(bumpAfk(W, W.currentRoom[s]), ToSocket("ack:error", s, error))

\* return ack?.({ ok: false, error })
ackError(W, s, error) == Emit(W, ToSocket("ack:error", s, error))

\* room:create that starts the game at once, as room:create:ai does: the
\* variant C13 must tell from roomCreate
roomCreatePlaying(W, s, code) ==
  LET room == [NewRoom(code, FALSE, "playing") EXCEPT !.players = <<s>>]
      W1 == Allocate(W, code, room)
      W2 == Emit([W1 EXCEPT !.currentRoom[s] = code], ToSocket("ack:ok", s, ""))
  IN startRound(bumpAfk(broadcast(W2, code, "create"), code), code)

\* socket.on("room:create"); code is what nanoid() returned
roomCreate(W, s, code) ==
  LET room == [NewRoom(code, FALSE, "lobby") EXCEPT !.players = <<s>>]
      W1 == Allocate(W, code, room)
      W2 == Emit([W1 EXCEPT !.currentRoom[s] = code], ToSocket("ack:ok", s, ""))
  IN bumpAfk(broadcast(W2, code, "create"), code)

\* socket.on("room:create:ai")
roomCreateAI(W, s, code) ==
  LET room == [NewRoom(code, TRUE, "playing") EXCEPT !.players = <<s, Bot>>]
      W1 == Allocate(W, code, room)
      W2 == Emit([W1 EXCEPT !.currentRoom[s] = code], ToSocket("ack:ok", s, ""))
  IN startRound(broadcast(W2, code, "createAI"), code)

\* room:join without `if (room.players.size >= 2)`: the variant C11 and C12
\* must tell from roomJoin
roomJoinNoFullCheck(W, s, code) ==
  LET r == getRoom(W, code)
  IN IF r = NoRoom \/ W.heap[r].closing
     THEN ackError(W, s, "Room not found")
     ELSE IF W.heap[r].ai
     THEN ackError(W, s, "This room is AI only and already full")
     ELSE LET players == PlayersSet(W.heap[r].players, s)
              W1 == [W EXCEPT !.heap[r].players = players,
                              !.heap[r].status = IF Len(players) = 2 THEN "playing" ELSE "lobby",
                              !.currentRoom[s] = code]
              W2 == bumpAfk(broadcast(Emit(W1, ToSocket("ack:ok", s, "")), code, "join"), code)
          IN IF W2.heap[r].status = "playing" /\ Len(W2.heap[r].players) = 2
             THEN startRound(W2, code) ELSE W2

\* room:join with `room.status = "playing"` whatever the size: the variant
\* C35 must tell from roomJoin
roomJoinAlwaysPlaying(W, s, code) ==
  LET r == getRoom(W, code)
  IN IF r = NoRoom \/ W.heap[r].closing
     THEN ackError(W, s, "Room not found")
     ELSE IF W.heap[r].ai
     THEN ackError(W, s, "This room is AI only and already full")
     ELSE IF Len(W.heap[r].players) >= 2
     THEN ackError(W, s, "Room is full")
     ELSE LET players == PlayersSet(W.heap[r].players, s)
              W1 == [W EXCEPT !.heap[r].players = players,
                              !.heap[r].status = "playing",
                              !.currentRoom[s] = code]
              W2 == bumpAfk(broadcast(Emit(W1, ToSocket("ack:ok", s, "")), code, "join"), code)
          IN IF W2.heap[r].status = "playing" /\ Len(W2.heap[r].players) = 2
             THEN startRound(W2, code) ELSE W2

\* socket.on("room:join")
roomJoin(W, s, code) ==
  LET r == getRoom(W, code)
  IN IF r = NoRoom \/ W.heap[r].closing
     THEN ackError(W, s, "Room not found")
     ELSE IF W.heap[r].ai
     THEN ackError(W, s, "This room is AI only and already full")
     ELSE IF Len(W.heap[r].players) >= 2
     THEN ackError(W, s, "Room is full")
     ELSE LET players == PlayersSet(W.heap[r].players, s)
              W1 == [W EXCEPT !.heap[r].players = players,
                              !.heap[r].status = IF Len(players) = 2 THEN "playing" ELSE "lobby",
                              !.currentRoom[s] = code]
              W2 == bumpAfk(broadcast(Emit(W1, ToSocket("ack:ok", s, "")), code, "join"), code)
          IN IF W2.heap[r].status = "playing" /\ Len(W2.heap[r].players) = 2
             THEN startRound(W2, code) ELSE W2

\* the guards without `!room.players.has(socket.id)`: the variant C10 must
\* tell from SubmitRefused
SubmitRefusedNoMemberCheck(W, s) ==
  LET r == getRoom(W, W.currentRoom[s])
  IN IF r = NoRoom \/ W.heap[r].closing THEN "No room"
     ELSE IF W.heap[r].status # "playing" THEN "Game is not active"
     ELSE ""

\* the guards of game:submit on the room: the error they return with, or ""
SubmitRefused(W, s) ==
  LET r == getRoom(W, W.currentRoom[s])
  IN IF r = NoRoom \/ W.heap[r].closing THEN "No room"
     ELSE IF W.heap[r].status # "playing" THEN "Game is not active"
     ELSE IF s \notin PlayerIds(W.heap[r]) THEN "Not in room"
     ELSE ""

\* the validation comparing the word as typed with the lower-cased used
\* words: the variant C7 must tell from WordRefused
WordRefusedCaseSensitive(room, clean) ==
  IF clean = "" THEN "Word cannot be empty"
  ELSE IF clean \in getUsedWordsFromHistory(room)
  THEN "That word was already used earlier in this room"
  ELSE ""

\* the validation of game:submit on the trimmed word: its error, or ""
WordRefused(room, clean) ==
  IF clean = "" THEN "Word cannot be empty"
  ELSE IF ToLower(clean) \in getUsedWordsFromHistory(room)
  THEN "That word was already used earlier in this room"
  ELSE ""

\* game:submit stopping the round timer before it waits for the AI word: the
\* variant C38 must tell from gameSubmit
gameSubmitStopsTimer(W, s, word) ==
  LET code == W.currentRoom[s]
      r == getRoom(W, code)
      clean == Trim(word)
  IN IF SubmitRefused(W, s) # ""
     THEN ackError(W, s, SubmitRefused(W, s))
     ELSE IF WordRefused(W.heap[r], clean) # ""
     THEN ackError(W, s, WordRefused(W.heap[r], clean))
     ELSE LET W1 == [W EXCEPT !.heap[r].submissions[s] = clean]
              W2 == Emit(bumpAfk(W1, code), ToSocket("ack:ok", s, ""))
          IN IF W2.heap[r].ai /\ W2.heap[r].submissions[Bot] = Unset
             THEN [W2 EXCEPT !.heap[r] = clearRoundTimer(@),
                             !.pending = BagAdd(@, Cont("submit", r, s, Sent(W2, r)))]
             ELSE SubmitReveal(W2, code, r, s)

\* game:submit keeping the first word a member sent in the round: the variant
\* C36 must tell from gameSubmit
gameSubmitKeepsFirstWord(W, s, word) ==
  LET code == W.currentRoom[s]
      r == getRoom(W, code)
      clean == Trim(word)
  IN IF SubmitRefused(W, s) # ""
     THEN ackError(W, s, SubmitRefused(W, s))
     ELSE IF WordRefused(W.heap[r], clean) # ""
     THEN ackError(W, s, WordRefused(W.heap[r], clean))
     ELSE LET W1 == IF W.heap[r].submissions[s] = Unset
                    THEN [W EXCEPT !.heap[r].submissions[s] = clean]
                    ELSE W
              W2 == Emit(bumpAfk(W1, code), ToSocket("ack:ok", s, ""))
          IN IF W2.heap[r].ai /\ W2.heap[r].submissions[Bot] = Unset
             THEN [W2 EXCEPT !.pending = BagAdd(@, Cont("submit", r, s, Sent(W2, r)))]
             ELSE SubmitReveal(W2, code, r, s)

\* socket.on("game:submit"), up to the await or, without one, to the end
gameSubmit(W, s, word) ==
  LET code == W.currentRoom[s]
      r == getRoom(W, code)
      clean == Trim(word)
  IN IF SubmitRefused(W, s) # ""
     THEN ackError(W, s, SubmitRefused(W, s))
     ELSE IF WordRefused(W.heap[r], clean) # ""
     THEN ackError(W, s, WordRefused(W.heap[r], clean))
     ELSE LET W1 == [W EXCEPT !.heap[r].submissions[s] = clean]
              W2 == Emit(bumpAfk(W1, code), ToSocket("ack:ok", s, ""))
          IN IF W2.heap[r].ai /\ W2.heap[r].submissions[Bot] = Unset
             THEN [W2 EXCEPT !.pending = BagAdd(@, Cont("submit", r, s, Sent(W2, r)))]
             ELSE SubmitReveal(W2, code, r, s)

\* game:submit resumes after `await maybeMakeBotSubmission(room)`
gameSubmitResume(W, k, botWord) ==
  LET W1 == [W EXCEPT !.pending = BagRemove(@, k)]
      W2 == maybeMakeBotSubmission(W1, k.room, botWord)
  IN SubmitReveal(W2, W.heap[k.room].code, k.room, k.sock)

\* the round timer of room object o fires: the callback of startRound, up to
\* the await or, without one, to the end
roundTimerFire(W, o) ==
  LET code == W.heap[o].code
      W1 == [W EXCEPT !.heap[o].roundTimer = "fired"]
      r == getRoom(W1, code)
  IN IF r = NoRoom \/ W1.heap[r].closing \/ W1.heap[r].status # "playing"
     THEN W1
     ELSE IF W1.heap[r].ai /\ W1.heap[r].submissions[Bot] = Unset
     THEN [W1 EXCEPT !.pending = BagAdd(@, Cont("timer", r, NoSock, Sent(W1, r)))]
     ELSE TimerReveal(W1, code, r)

\* the round timer callback resumes after `await maybeMakeBotSubmission(r)`
roundTimerResume(W, k, botWord) ==
  LET W1 == [W EXCEPT !.pending = BagRemove(@, k)]
      W2 == maybeMakeBotSubmission(W1, k.room, botWord)
  IN TimerReveal(W2, W.heap[k.room].code, k.room)

\* what the suspended handler k does when maybeMakeBotSubmission is through
\* with botWord
Resumed(W, k, botWord) ==
  IF k.kind = "submit" THEN gameSubmitResume(W, k, botWord)
  ELSE roundTimerResume(W, k, botWord)

\* the request k waits for is sent again or given up, and another one sent
Reissue(W, k, k2) == [W EXCEPT !.pending = BagAdd(BagRemove(@, k), k2)]

\* aiFetchFails with a postJSON that tries three times: the variant C26 must
\* tell from aiFetchFails
aiFetchFailsThreeTries(W, k) ==
  IF k.attempt < 2
  THEN Reissue(W, k, [k EXCEPT !.attempt = @ + 1])
  ELSE IF k.phase = "catch"
  THEN Resumed(W, k, FallbackWord)
  ELSE Reissue(W, k, [k EXCEPT !.phase = "catch", !.attempt = 0,
                               !.req = getRandomWord(getUsedWordsFromHistory(W.heap[k.room]))])

\* the fetch of k's request fails (network error, abort after abortMs,
\* status not ok, body not JSON): postJSON tries again while attempt <
\* retries and throws otherwise; the throw takes maybeMakeBotSubmission to
\* its catch block, and in the catch block to `.catch(() => null)`
aiFetchFails(W, k) ==
  IF k.attempt < Retries
  THEN Reissue(W, k, [k EXCEPT !.attempt = @ + 1])
  ELSE IF k.phase = "catch"
  THEN Resumed(W, k, FallbackWord)
  ELSE Reissue(W, k, [k EXCEPT !.phase = "catch", !.attempt = 0,
                               !.req = getRandomWord(getUsedWordsFromHistory(W.heap[k.room]))])

\* the fetch of k's request returns a JSON body; choice is its `choice`, or
\* Unset when it has none:  ai?.choice || (await getRandomWord(exclude))?.choice
\* || "apple"  and  rand?.choice || "apple"
aiFetchReturns(W, k, choice) ==
  IF ~Falsy(choice)
  THEN Resumed(W, k, choice)
  ELSE IF k.phase = "first" /\ k.req.fn = "getNextWordUsingPrev"
  THEN Reissue(W, k, [k EXCEPT !.phase = "second", !.attempt = 0,
                               !.req = getRandomWord(k.req.exclude)])
  ELSE Resumed(W, k, FallbackWord)

\* the restart without `room.winnerRound = null`: the variant C16 must tell
\* from Restart
RestartKeepsWinnerRound(W, code, r, tag) ==
  LET W1 == [W EXCEPT !.heap[r].history = << >>,
                      !.heap[r].submissions = [i \in Ids |-> Unset],
                      !.heap[r].status = "playing",
                      !.heap[r].rematchReady = {}]
      W2 == Emit(W1, ToRoom("game:restart", code, r, 0, "", "", ""))
  IN startRound(broadcast(W2, code, tag), code)

\* the restart with its broadcast before the reset of the room: the variant
\* C32 must tell from Restart
RestartBroadcastsFirst(W, code, r, tag) ==
  LET W0 == broadcast(W, code, tag)
      W1 == [W0 EXCEPT !.heap[r].history = << >>,
                       !.heap[r].submissions = [i \in Ids |-> Unset],
                       !.heap[r].status = "playing",
                       !.heap[r].winnerRound = 0,
                       !.heap[r].rematchReady = {}]
      W2 == Emit(W1, ToRoom("game:restart", code, r, 0, "", "", ""))
  IN startRound(W2, code)

\* the restart of game:rematch:ready
Restart(W, code, r, tag) ==
  LET W1 == [W EXCEPT !.heap[r].history = << >>,
                      !.heap[r].submissions = [i \in Ids |-> Unset],
                      !.heap[r].status = "playing",
                      !.heap[r].winnerRound = 0,
                      !.heap[r].rematchReady = {}]
      W2 == Emit(W1, ToRoom("game:restart", code, r, 0, "", "", ""))
  IN startRound(broadcast(W2, code, tag), code)

\* game:rematch:ready without `if (room.status !== "won") return`: the
\* variant C18 must tell from gameRematchReady
gameRematchReadyAnyStatus(W, s) ==
  LET code == W.currentRoom[s]
      r == getRoom(W, code)
  IN IF r = NoRoom \/ W.heap[r].closing
     THEN W
     ELSE IF W.heap[r].ai
     THEN Restart(W, code, r, "restartAI")
     ELSE IF Len(W.heap[r].players) # 2
     THEN W
     ELSE LET W1 == bumpAfk([W EXCEPT !.heap[r].rematchReady = @ \cup {s}], code)
          IN IF Cardinality(W1.heap[r].rematchReady) = 2
             THEN Restart(W1, code, r, "restart")
             ELSE broadcast(W1, code, "rematchWait")

\* socket.on("game:rematch:ready")
gameRematchReady(W, s) ==
  LET code == W.currentRoom[s]
      r == getRoom(W, code)
  IN IF r = NoRoom \/ W.heap[r].closing \/ W.heap[r].status # "won"
     THEN W
     ELSE IF W.heap[r].ai
     THEN Restart(W, code, r, "restartAI")
     ELSE IF Len(W.heap[r].players) # 2
     THEN W
     ELSE LET W1 == bumpAfk([W EXCEPT !.heap[r].rematchReady = @ \cup {s}], code)
          IN IF Cardinality(W1.heap[r].rematchReady) = 2
             THEN Restart(W1, code, r, "restart")
             ELSE broadcast(W1, code, "rematchWait")

\* notifyPartnerAndClose(reasonText): game:return:lobby and room:leave
notifyPartnerAndClose(W, s, reasonText) ==
  LET code == W.currentRoom[s]
      r == getRoom(W, code)
  IN IF r = NoRoom \/ W.heap[r].closing
     THEN W
     ELSE LET W1 == Supersede([W EXCEPT !.heap[r].closing = TRUE], r)
              partnerId == getPartnerId(W.heap[r], s)
              W2 == IF partnerId # NoSock
                    THEN Emit(W1, ToSocket("partner:left:modal", partnerId, reasonText))
                    ELSE W1
              W3 == Emit(W2, ToSocket("room:left", s, ""))
          IN [W3 EXCEPT !.deferred = BagAdd(@, [code |-> code, text |-> reasonText]),
                        !.currentRoom[s] = NoCode]

\* socket.on("disconnect")
disconnect(W, s) ==
  LET code == W.currentRoom[s]
      r == getRoom(W, code)
      W0 == [W EXCEPT !.connected[s] = FALSE]
  IN IF r = NoRoom \/ W.heap[r].closing
     THEN W0
     ELSE LET W1 == Supersede([W0 EXCEPT !.heap[r].closing = TRUE], r)
              partnerId == getPartnerId(W.heap[r], s)
              W2 == IF partnerId # NoSock
                    THEN Emit(W1, ToSocket("partner:left:modal", partnerId, DisconnectText))
                    ELSE W1
          IN [W2 EXCEPT !.deferred = BagAdd(@, [code |-> code, text |-> DisconnectText]),
                        !.currentRoom[s] = NoCode]

\* setTimeout(() => { closeRoom(code, reasonText, null); }, 0) runs
deferredClose(W, d) == closeRoom([W EXCEPT !.deferred = BagRemove(@, d)], d.code, d.text)

\* the inactivity timer of room object o fires: the callback of bumpAfk
afkTimerFire(W, o) ==
  LET code == W.heap[o].code
      W1 == [W EXCEPT !.heap[o].afkTimer = "fired"]
      r == getRoom(W1, code)
  IN IF r = NoRoom \/ W1.heap[r].closing \/ W1.heap[r].status = "won"
     THEN W1
     ELSE closeRoom(W1, code, AfkText)

\* one room of the AFK sweep's loop
SweepRoom(W, code) ==
  LET r == getRoom(W, code)
  IN IF r = NoRoom \/ W.heap[r].closing \/ W.heap[r].status = "won" \/ ~W.heap[r].idle
     THEN W
     ELSE closeRoom(W, code, AfkText)

RECURSIVE SweepFrom(_, _)
SweepFrom(W, code) == IF code > NumCodes THEN W ELSE SweepFrom(SweepRoom(W, code), code + 1)

\* the setInterval callback, every 5 s
afkSweep(W) == SweepFrom(W, 1)

\* ---------------------------------------------------------------- actions
RoomCreate(s, code) ==
  connected[s] /\ FreeRoomIds(World) # {} /\ Commit(roomCreate(World, s, code))

RoomCreateAI(s, code) ==
  connected[s] /\ FreeRoomIds(World) # {} /\ Commit(roomCreateAI(World, s, code))

RoomJoin(s, code) == connected[s] /\ Commit(roomJoin(World, s, code))

GameSubmit(s, word) == connected[s] /\ Commit(gameSubmit(World, s, word))

GameSubmitResume(k, botWord) == k.kind = "submit" /\ Commit(gameSubmitResume(World, k, botWord))

\* a round timer fires 30 s after startRound armed it, unless cleared
RoundTimerFire(o) ==
  heap[o].used /\ heap[o].roundTimer = "armed" /\ Commit(roundTimerFire(World, o))

RoundTimerResume(k, botWord) == k.kind = "timer" /\ Commit(roundTimerResume(World, k, botWord))

\* game:submit and the round timer, the requests they send kept
GameSubmitSends(s, word) == connected[s] /\ Commit(gameSubmit(WorldOfRequests, s, word))

RoundTimerSends(o) ==
  heap[o].used /\ heap[o].roundTimer = "armed" /\ Commit(roundTimerFire(WorldOfRequests, o))

\* one fetch of the AI service settles
AiFetchFails(k) == BagIn(k, pending) /\ Commit(aiFetchFails(WorldOfRequests, k))

AiFetchReturns(k, choice) ==
  BagIn(k, pending) /\ Commit(aiFetchReturns(WorldOfRequests, k, choice))

GameRematchReady(s) == connected[s] /\ Commit(gameRematchReady(World, s))

\* socket.on("game:return:lobby") and socket.on("room:leave")
RoomLeave(s, reasonText) == connected[s] /\ Commit(notifyPartnerAndClose(World, s, reasonText))

Disconnect(s) == connected[s] /\ Commit(disconnect(World, s))

\* io.on("connection"): a new socket; its id is one no room object or
\* suspended handler still holds
Connection(s) ==
  /\ ~connected[s]
  /\ \A r \in RoomIds : s \notin PlayerIds(heap[r])
  /\ \A e \in BagToSet(pending) : e.sock # s
  /\ Commit([World EXCEPT !.connected[s] = TRUE, !.currentRoom[s] = NoCode])

DeferredClose(d) == BagIn(d, deferred) /\ Commit(deferredClose(World, d))

\* an inactivity timer fires 70 s after bumpAfk armed it, unless cleared;
\* bumpAfk sets lastActivity when it arms the timer
AfkTimerFire(o) ==
  heap[o].used /\ heap[o].afkTimer = "armed" /\ heap[o].idle /\ Commit(afkTimerFire(World, o))

AfkSweep ==
  /\ \E c \in Codes : rooms[c] # NoRoom /\ heap[rooms[c]].idle
  /\ Commit(afkSweep(World))

\* 70 s pass without lastActivity of room object o being set:
\* Date.now() - lastActivity >= 70_000 from now on
Elapse(o) == heap[o].used /\ ~heap[o].idle /\ Commit([World EXCEPT !.heap[o].idle = TRUE])

\* the room objects on the heap
LiveRooms == {r \in RoomIds : heap[r].used}

Next ==
  \/ \E s \in Clients, c \in OneCode : Cardinality(LiveRooms) < MaxLive /\ RoomCreate(s, c)
  \/ \E s \in Clients, c \in OneCode : Cardinality(LiveRooms) < MaxLive /\ RoomCreateAI(s, c)
  \/ \E s \in Clients, c \in Codes : RoomJoin(s, c)
  \/ \E s \in Clients, w \in RawWords : GameSubmit(s, w)
  \/ \E k \in BagToSet(pending), w \in BotWords : GameSubmitResume(k, w)
  \/ \E o \in RoomIds : RoundTimerFire(o)
  \/ \E k \in BagToSet(pending), w \in BotWords : RoundTimerResume(k, w)
  \/ \E s \in Clients : GameRematchReady(s)
  \/ \E s \in Clients, t \in LeaveTexts : RoomLeave(s, t)
  \/ \E s \in Clients : Disconnect(s)
  \/ \E s \in Clients : Connection(s)
  \/ \E d \in BagToSet(deferred) : DeferredClose(d)
  \/ \E o \in RoomIds : AfkTimerFire(o)
  \/ AfkSweep
  \/ \E o \in RoomIds : Elapse(o)

Spec == Init /\ [][Next]_vars

\* ---- three sockets: a room met by more connections than it has slots
\* The same handlers and timers with a third connection; the words sent are
\* CrowdWords.
CrowdWords == {"apple", ""}

CrowdInit ==
  /\ rooms = [c \in Codes |-> NoRoom]
  /\ heap = [r \in RoomIds |-> BlankRoom]
  /\ currentRoom = [s \in Sockets |-> NoCode]
  /\ connected = [s \in Sockets |-> TRUE]
  /\ pending = EmptyBag
  /\ deferred = EmptyBag

CrowdNext ==
  \/ \E s \in Sockets, c \in OneCode : Cardinality(LiveRooms) < MaxLive /\ RoomCreate(s, c)
  \/ \E s \in Sockets, c \in OneCode : Cardinality(LiveRooms) < MaxLive /\ RoomCreateAI(s, c)
  \/ \E s \in Sockets, c \in Codes : RoomJoin(s, c)
  \/ \E s \in Sockets, w \in CrowdWords : GameSubmit(s, w)
  \/ \E k \in BagToSet(pending), w \in BotWords : GameSubmitResume(k, w)
  \/ \E o \in RoomIds : RoundTimerFire(o)
  \/ \E k \in BagToSet(pending), w \in BotWords : RoundTimerResume(k, w)
  \/ \E s \in Sockets : GameRematchReady(s)
  \/ \E s \in Sockets, t \in LeaveTexts : RoomLeave(s, t)
  \/ \E s \in Sockets : Disconnect(s)
  \/ \E s \in Sockets : Connection(s)
  \/ \E d \in BagToSet(deferred) : DeferredClose(d)
  \/ \E o \in RoomIds : AfkTimerFire(o)
  \/ AfkSweep
  \/ \E o \in RoomIds : Elapse(o)

CrowdSpec == CrowdInit /\ [][CrowdNext]_vars



\* ---- the AI requests one by one
\* One AI room and its human member: every fetch of the AI service is a
\* step of its own, so that the requests maybeMakeBotSubmission sends one
\* after the other, and what other handlers do in between, are in the
\* behaviours.  The human types AiTyped.
AiClients == {"s1"}
AiTyped == {"apple", "pear"}
\* the `choice` of a reply of the service: a word, or none
Choices == AIWords \cup {Unset}

AiNext ==
  \/ \E s \in AiClients, c \in OneCode : Cardinality(LiveRooms) < MaxLive /\ RoomCreateAI(s, c)
  \/ \E s \in AiClients, w \in AiTyped : GameSubmitSends(s, w)
  \/ \E o \in RoomIds : RoundTimerSends(o)
  \/ \E k \in BagToSet(pending) : AiFetchFails(k)
  \/ \E k \in BagToSet(pending), choice \in Choices : AiFetchReturns(k, choice)
  \/ \E s \in AiClients : GameRematchReady(s)

AiSpec == Init /\ [][AiNext]_vars

\* ---- two room objects: a room is created while another one is live
\* The same handlers and timers, with a room created while another room
\* object is still on the heap, under another code or, when nanoid() returns
\* a code that is in use, under the same one; the rooms are human-pair
\* rooms, nothing is submitted and every round times out.
OverwriteNext ==
  \/ \E s \in Clients, c \in Codes : RoomCreate(s, c)
  \/ \E s \in Clients, c \in Codes : RoomJoin(s, c)
  \/ \E o \in RoomIds : RoundTimerFire(o)
  \/ \E s \in Clients, t \in LeaveTexts : RoomLeave(s, t)
  \/ \E s \in Clients : Disconnect(s)
  \/ \E s \in Clients : Connection(s)
  \/ \E d \in BagToSet(deferred) : DeferredClose(d)
  \/ \E o \in RoomIds : AfkTimerFire(o)
  \/ AfkSweep
  \/ \E o \in RoomIds : Elapse(o)

OverwriteSpec == Init /\ [][OverwriteNext]_vars


\* ================================================================= claims
\* A statement about what a handler does is checked in every reachable state
\* on the result of every handler that can run there.

\* the handlers that can reveal a round: P holds of the world each leaves
AfterEveryResolver(P(_)) ==
  /\ \A s \in Sockets, w \in RawWords : connected[s] => P(gameSubmit(World, s, w))
  /\ \A k \in BagToSet(pending), w \in BotWords :
       /\ k.kind = "submit" => P(gameSubmitResume(World, k, w))
       /\ k.kind = "timer" => P(roundTimerResume(World, k, w))
  /\ \A o \in RoomIds :
       heap[o].used /\ heap[o].roundTimer = "armed" => P(roundTimerFire(World, o))

\* the round timer callback, run without an await or resumed after it
AfterEveryTimerReveal(P(_, _)) ==
  /\ \A k \in BagToSet(pending), w \in BotWords :
       k.kind = "timer" => P(roundTimerResume(World, k, w), w)
  /\ \A o \in RoomIds :
       heap[o].used /\ heap[o].roundTimer = "armed" => P(roundTimerFire(World, o), Unset)

\* the handler that left W appended an entry to the history of room object r
Resolved(W, r) == Len(W.heap[r].history) = Len(heap[r].history) + 1

LastEntry(W, r) == W.heap[r].history[Len(W.heap[r].history)]

EventsOf(W, ev) == {e \in Events(W.emitted) : e.ev = ev}

\* C1: in every reachable state the round numbers of a room's history are
\* exactly 1, 2, ..., len(history) in order: one entry per round number, no
\* duplicate and no gap, whatever the interleaving of timer firings,
\* submissions and AI responses.
C1_HistoryRoundsInOrder ==
  \A r \in RoomIds : \A i \in 1 .. Len(heap[r].history) : heap[r].history[i].round = i

\* an AI room with two resolved rounds while a handler superseded by one of
\* the resolutions is still waiting for its AI word
C1_Witness ==
  \E r \in RoomIds :
    /\ heap[r].ai /\ Len(heap[r].history) = 2
    /\ \E k \in BagToSet(pending) : k.room = r /\ k.stale

\* C2 (as claimed): a round timer callback never acts on superseded state.
\* When it runs and the room is missing, closing or not playing, and when it
\* resumes after awaiting the AI word although its round has been resolved
\* or restarted or the room is closing, it appends nothing to the history,
\* emits no reveal or win and starts no round.
C2_StaleTimerCallbackIsInert ==
  /\ \A k \in BagToSet(pending), w \in BotWords :
       k.kind = "timer" /\ k.stale =>
         LET W == roundTimerResume(World, k, w)
         IN /\ W.heap[k.room].history = heap[k.room].history
            /\ EventsOf(W, "game:reveal") = {} /\ EventsOf(W, "game:win") = {}
            /\ EventsOf(W, "game:round") = {}
  /\ \A o \in RoomIds :
       /\ heap[o].used /\ heap[o].roundTimer = "armed"
       /\ LET r == getRoom(World, heap[o].code)
          IN r = NoRoom \/ heap[r].closing \/ heap[r].status # "playing"
       => LET W == roundTimerFire(World, o)
          IN /\ \A r \in RoomIds : W.heap[r].history = heap[r].history
             /\ W.emitted = << >>

\* C3 (as claimed): while a room stays won, no entry is appended to its
\* history and no round timer is armed for it.
C3_NoAppendWhileWon ==
  [][\A r \in RoomIds :
       heap[r].used /\ heap[r].status = "won" /\ heap'[r].used /\ heap'[r].status = "won"
       => heap'[r].history = heap[r].history /\ heap'[r].roundTimer # "armed"]_vars

\* "every slot's word is non-sentinel and all words are equal ignoring case"
ClaimMatch(pairs) ==
  /\ \A p \in 1 .. Len(pairs) : pairs[p].word # NoGuess
  /\ \A p, q \in 1 .. Len(pairs) : ToLower(pairs[p].word) = ToLower(pairs[q].word)

C4_After(W) ==
  \A r \in RoomIds :
    Resolved(W, r) =>
      LET e == LastEntry(W, r)
          wins == EventsOf(W, "game:win")
      IN IF ClaimMatch(e.pairs)
         THEN /\ W.heap[r].status = "won"
              /\ W.heap[r].winnerRound = e.round
              /\ wins # {}
              /\ \A x \in wins :
                   /\ x.room = r /\ x.round = e.round
                   /\ \A p \in 1 .. Len(e.pairs) : ToLower(e.pairs[p].word) = ToLower(x.word)
              /\ EventsOf(W, "game:round") = {}
              /\ W.heap[r].roundTimer # "armed"
         ELSE /\ wins = {}
              /\ W.heap[r].status = heap[r].status
              /\ W.heap[r].winnerRound = heap[r].winnerRound

\* C4: whenever a round is resolved, by the submission path or by the
\* timeout path, the resolution makes the room won if and only if every
\* slot's word is non-sentinel and all words are equal ignoring case.  On a
\* match it sets status to won and winnerRound to the round's number, emits
\* game:win with that number and the matched word, and starts no round; on
\* no match it emits no game:win and leaves status and winnerRound alone.
C4_WonIffMatch == AfterEveryResolver(C4_After)

\* a room won on two words that differ in case only
C4_Witness ==
  \E r \in RoomIds :
    /\ heap[r].status = "won" /\ heap[r].winnerRound = Len(heap[r].history)
    /\ Len(heap[r].history) > 0
    /\ LET e == heap[r].history[Len(heap[r].history)]
       IN e.pairs[1].word # e.pairs[2].word /\ ClaimMatch(e.pairs)

\* the slots of room object r that the entry e records as "(no guess)"
HasSentinel(e) == \E p \in 1 .. Len(e.pairs) : e.pairs[p].word = NoGuess

\* the next round was started in room object r by the handler that left W
NextRoundStarted(W, r, round) ==
  /\ \E x \in EventsOf(W, "game:round") : x.room = r /\ x.round = round
  /\ W.heap[r].roundTimer = "armed"
  /\ W.heap[r].submissions = [i \in Ids |-> Unset]
  /\ W.heap[r].status = "playing"

\* C5 (as claimed): when the round timer fires while a slot has no word,
\* that slot is recorded in the history as "(no guess)".  The callback that
\* waits for the AI word was started with the bot slot empty.
C5_MissingSlotIsSentinel ==
  /\ \A o \in RoomIds :
       heap[o].used /\ heap[o].roundTimer = "armed" =>
         LET W == roundTimerFire(World, o)
         IN \A r \in RoomIds : Resolved(W, r) =>
              \A p \in 1 .. Len(LastEntry(W, r).pairs) :
                heap[r].submissions[LastEntry(W, r).pairs[p].id] = Unset
                => LastEntry(W, r).pairs[p].word = NoGuess
  /\ \A k \in BagToSet(pending), w \in BotWords :
       k.kind = "timer" =>
         LET W == roundTimerResume(World, k, w)
         IN \A p \in 1 .. Len(LastEntry(W, k.room).pairs) :
              LastEntry(W, k.room).pairs[p].id = Bot
              => LastEntry(W, k.room).pairs[p].word = NoGuess

C5_After(W, botWord) ==
  \A r \in RoomIds :
    Resolved(W, r) =>
      LET e == LastEntry(W, r)
      IN /\ e.round = Len(heap[r].history) + 1
         /\ Len(e.pairs) = Len(heap[r].players)
         /\ \A p \in 1 .. Len(e.pairs) :
              LET id == heap[r].players[p]
              IN /\ e.pairs[p].id = id
                 /\ e.pairs[p].word =
                      IF id = Bot /\ botWord # Unset THEN botWord
                      ELSE IF heap[r].submissions[id] # Unset THEN heap[r].submissions[id]
                      ELSE NoGuess
         /\ HasSentinel(e) =>
              /\ W.heap[r].status = heap[r].status
              /\ EventsOf(W, "game:win") = {}
              /\ (rooms[heap[r].code] = r /\ ~heap[r].closing /\ heap[r].status = "playing")
                 => NextRoundStarted(W, r, e.round + 1)

\* C5 (amended): when the round timer callback reveals a round, every human
\* slot that has no word is recorded as "(no guess)"; the bot slot of an AI
\* room is never recorded as missing: the callback first waits for the AI
\* word (the service's choice or the local default) and records that.  A
\* round with "(no guess)" in a slot never makes the room won, and when the
\* room is still registered, not closing and playing, the next round starts.
C5_TimeoutRecordsSentinel == AfterEveryTimerReveal(C5_After)

\* a human-pair room whose first round was revealed by the timer with both
\* slots "(no guess)", now playing its second round
C5_Witness ==
  \E r \in RoomIds :
    /\ ~heap[r].ai /\ heap[r].status = "playing" /\ heap[r].roundTimer = "armed"
    /\ Len(heap[r].history) = 1
    /\ \A p \in 1 .. 2 : heap[r].history[1].pairs[p].word = NoGuess
    /\ \A s \in Sockets : heap[r].submissions[s] = Unset

\* Node's event loop runs every timer that is armed and due, and every AI
\* request ends (postJSON aborts each fetch after abortMs and retries once), so
\* a suspended handler resumes.  Weak fairness of the three steps, written
\* out as []<>~ENABLED <<A>>_vars \/ []<><<A>>_vars with the steps' guards
\* (each of them changes roundTimer or pending, so its guard is its ENABLED).
TimerFireEnabled(o) ==
  heap[o].used /\ heap[o].roundTimer = "armed" /\ WithinBounds(roundTimerFire(World, o))

\* a round timer callback of room object o can resume
TimerResumeEnabled(o) ==
  \E k \in BagToSet(pending), w \in BotWords :
    k.kind = "timer" /\ k.room = o /\ WithinBounds(roundTimerResume(World, k, w))

\* a game:submit of room object o can resume
SubmitResumeEnabled(o) ==
  \E k \in BagToSet(pending), w \in BotWords :
    k.kind = "submit" /\ k.room = o /\ WithinBounds(gameSubmitResume(World, k, w))

\* Weak fairness, room object by room object, of the three steps the runtime
\* owes a room: an armed round timer fires, and an awaited AI request
\* settles (aiClient aborts it after its timeout), in either handler.
Fairness ==
  \A o \in RoomIds :
    /\ \/ []<>(~TimerFireEnabled(o))
       \/ []<><<RoundTimerFire(o)>>_vars
    /\ \/ []<>(~TimerResumeEnabled(o))
       \/ []<><<\E k \in BagToSet(pending), w \in BotWords :
                  k.room = o /\ RoundTimerResume(k, w)>>_vars
    /\ \/ []<>(~SubmitResumeEnabled(o))
       \/ []<><<\E k \in BagToSet(pending), w \in BotWords :
                  k.room = o /\ GameSubmitResume(k, w)>>_vars

FairSpec == Init /\ [][Next]_vars /\ Fairness

\* room object r is registered, not closing and playing
Playing(r) ==
  /\ heap[r].used /\ rooms[heap[r].code] = r
  /\ ~heap[r].closing /\ heap[r].status = "playing"

\* the round timer of a playing room is armed, or its callback is waiting
\* for the AI word
TimerPending(r) ==
  \/ heap[r].roundTimer = "armed"
  \/ \E k \in BagToSet(pending) : k.kind = "timer" /\ k.room = r

ClaimUsed(room, clean) ==
  \E h \in 1 .. Len(room.history) : \E p \in 1 .. Len(room.history[h].pairs) :
    /\ room.history[h].pairs[p].word # NoGuess
    /\ ToLower(room.history[h].pairs[p].word) = ToLower(clean)

\* the handler that left W sent socket s an error and nothing else to anyone
OnlyErrorTo(W, s) ==
  /\ Len(W.emitted) = 1
  /\ W.emitted[1].ev = "ack:error" /\ W.emitted[1].sock = s /\ W.emitted[1].chan = NoCode

\* the handler that left W changed nothing of the server's state
NothingChanged(W) ==
  /\ W.rooms = rooms /\ W.heap = heap /\ W.currentRoom = currentRoom
  /\ W.connected = connected /\ W.pending = pending /\ W.deferred = deferred

\* game:submit accepted socket s's word: ok to s, and the word is s's
\* pending word of room object r or s's word of the round it completed
Accepted(W, s, r, clean) ==
  /\ \E e \in EventsOf(W, "ack:ok") : e.sock = s
  /\ EventsOf(W, "ack:error") = {}
  /\ IF Resolved(W, r)
     THEN \E p \in 1 .. Len(LastEntry(W, r).pairs) :
            LastEntry(W, r).pairs[p] = [id |-> s, word |-> clean]
     ELSE W.heap[r].submissions[s] = clean

\* socket s is a member of the live, playing room its connection is in
CanSubmit(s) ==
  LET r == getRoom(World, currentRoom[s])
  IN /\ connected[s] /\ r # NoRoom
     /\ ~heap[r].closing /\ heap[r].status = "playing" /\ s \in PlayerIds(heap[r])

\* C7: a submission whose trimmed word equals, ignoring case, a non-sentinel
\* word of a completed round of the room is rejected with an error to the
\* submitter and records nothing, whichever member sends it; a non-empty
\* word that is in no completed round is accepted from a member of a playing
\* room whatever the partner's pending word is.
C7_HistoryWordRejected ==
  \A s \in Sockets, w \in RawWords :
    LET r == getRoom(World, currentRoom[s])
        W == gameSubmit(World, s, w)
    IN connected[s] /\ r # NoRoom =>
         /\ ClaimUsed(heap[r], Trim(w)) => OnlyErrorTo(W, s) /\ W.heap = heap
         /\ CanSubmit(s) /\ Trim(w) # "" /\ ~ClaimUsed(heap[r], Trim(w))
            => Accepted(W, s, r, Trim(w))

\* a human-pair room in round 2: "apple" is in round 1, the partner's pending
\* word is "pear"; " Apple " is refused and "pear" is accepted and wins
C7_Witness ==
  \E s \in Sockets, r \in RoomIds :
    /\ CanSubmit(s) /\ getRoom(World, currentRoom[s]) = r /\ ~heap[r].ai
    /\ Len(heap[r].history) = 1 /\ ClaimUsed(heap[r], "apple")
    /\ \E t \in Sockets \ {s} : heap[r].submissions[t] = "pear"
    /\ OnlyErrorTo(gameSubmit(World, s, " Apple "), s)
    /\ gameSubmit(World, s, "pear").heap[r].status = "won"

\* C8 (as claimed): no non-sentinel word occurs, ignoring case, in two
\* different rounds of a room's history, the bot's words included.
C8_NoWordInTwoRounds ==
  \A r \in RoomIds : \A h1, h2 \in 1 .. Len(heap[r].history) :
    h1 # h2 =>
      \A p1 \in 1 .. Len(heap[r].history[h1].pairs), p2 \in 1 .. Len(heap[r].history[h2].pairs) :
        LET w1 == heap[r].history[h1].pairs[p1].word
            w2 == heap[r].history[h2].pairs[p2].word
        IN w1 # NoGuess /\ w2 # NoGuess => ToLower(w1) # ToLower(w2)

\* C9: a submission by a member of a playing room that is refused for an
\* empty word or a word of a completed round changes nothing of the server's
\* state (submissions, history, status, timers, lastActivity), sends the
\* error to the submitter only, and a valid word the same player sends next
\* is accepted.
C9_RejectionChangesNothing ==
  \A s \in Sockets, w \in RawWords :
    LET r == getRoom(World, currentRoom[s])
        W == gameSubmit(World, s, w)
    IN CanSubmit(s) /\ (Trim(w) = "" \/ ClaimUsed(heap[r], Trim(w))) =>
         /\ NothingChanged(W)
         /\ OnlyErrorTo(W, s)
         /\ \A w2 \in RawWords :
              Trim(w2) # "" /\ ~ClaimUsed(heap[r], Trim(w2))
              => Accepted(gameSubmit([W EXCEPT !.emitted = << >>], s, w2), s, r, Trim(w2))

\* a member of a playing room whose lastActivity is 70 s old and whose
\* inactivity timer is not armed, with a completed round to repeat a word of
C9_Witness ==
  \E s \in Sockets :
    /\ CanSubmit(s)
    /\ LET room == heap[getRoom(World, currentRoom[s])]
       IN /\ room.idle /\ room.afkTimer # "armed"
          /\ \E w \in RawWords : Trim(w) # "" /\ ClaimUsed(room, Trim(w))
          /\ \E w \in RawWords : Trim(w) # "" /\ ~ClaimUsed(room, Trim(w))

\* C10: a submission from a connection whose room is missing or closing, or
\* not playing (lobby or won), or of which the connection is not a member,
\* changes nothing of the server's state: no word, no history entry, no
\* timer, no lastActivity.
C10_RefusedSubmitChangesNothing ==
  \A s \in Sockets, w \in RawWords :
    connected[s] /\ ~CanSubmit(s) => NothingChanged(gameSubmit(World, s, w))

\* a connection whose code now names a playing room it is not a member of,
\* with lastActivity 70 s old
C10_Witness ==
  \E s \in Sockets :
    LET r == getRoom(World, currentRoom[s])
    IN /\ connected[s] /\ r # NoRoom /\ ~heap[r].closing
       /\ heap[r].status = "playing" /\ s \notin PlayerIds(heap[r]) /\ heap[r].idle

\* the guards of room:join refuse code: nothing under it, a closing room, an
\* AI room, or a room with two members
JoinFails(code) ==
  LET r == getRoom(World, code)
  IN r = NoRoom \/ heap[r].closing \/ heap[r].ai \/ Len(heap[r].players) >= 2

\* C11: a join that fails (room not found or closing, AI room, room with two
\* members) creates no room and changes nothing of any room (membership,
\* status, lastActivity, inactivity timer) nor the requester's current room;
\* the requester alone gets the error.
C11_FailedJoinChangesNothing ==
  \A s \in Sockets, c \in Codes :
    connected[s] /\ JoinFails(c) =>
      /\ NothingChanged(roomJoin(World, s, c))
      /\ OnlyErrorTo(roomJoin(World, s, c), s)

\* an AI room whose lastActivity is 70 s old, asked to let another socket in
C11_Witness ==
  \E s \in Sockets, c \in Codes :
    LET r == getRoom(World, c)
    IN /\ connected[s] /\ currentRoom[s] = NoCode
       /\ r # NoRoom /\ ~heap[r].closing /\ heap[r].ai /\ heap[r].idle
       /\ s \notin PlayerIds(heap[r])
       /\ roomJoin(World, s, c).emitted[1].text = "This room is AI only and already full"

\* C12: in every reachable state a room has at most 2 occupied slots, each
\* once: two sockets in a human-pair room, one socket and the bot in an AI
\* room.
C12_AtMostTwoSlots ==
  \A r \in RoomIds :
    heap[r].used =>
      LET room == heap[r]
      IN /\ Len(room.players) <= 2
         /\ Cardinality(PlayerIds(room)) = Len(room.players)
         /\ IF room.ai
            THEN Len(room.players) = 2 /\ room.players[1] \in Sockets /\ room.players[2] = Bot
            ELSE PlayerIds(room) \subseteq Sockets

\* a human-pair room with two members refuses a third connection
C12_Witness ==
  \E s \in Sockets, c \in Codes :
    LET r == getRoom(World, c)
    IN /\ connected[s] /\ r # NoRoom /\ ~heap[r].ai
       /\ Len(heap[r].players) = 2 /\ s \notin PlayerIds(heap[r])
       /\ roomJoin(World, s, c).emitted[1].text = "Room is full"

\* the handler that left W started round 1 of room object r: status playing,
\* no history, no submissions, the round announced, and its timer armed
RoundOneStarted(W, r) ==
  /\ W.heap[r].status = "playing"
  /\ W.heap[r].history = << >>
  /\ SubmissionKeys(W.heap[r]) = {}
  /\ W.heap[r].roundTimer = "armed"
  /\ \E e \in EventsOf(W, "game:round") : e.room = r /\ e.round = 1

\* C13: a human-pair room with one member is in lobby with no round timer and
\* no round played; the join of a second human moves it to playing with two
\* members and starts round 1; an AI room is playing with round 1 started by
\* the handler that creates it.
C13_LobbyUntilSecondJoin ==
  /\ \A r \in RoomIds :
       heap[r].used /\ ~heap[r].ai /\ Len(heap[r].players) < 2 =>
         /\ heap[r].status = "lobby"
         /\ heap[r].roundTimer = "null"
         /\ heap[r].history = << >>
  /\ \A s \in Sockets, c \in Codes :
       LET r == getRoom(World, c)
           W == roomJoin(World, s, c)
       IN connected[s] /\ ~JoinFails(c) /\ s \notin PlayerIds(heap[r]) =>
            /\ Len(W.heap[r].players) = 2
            /\ RoundOneStarted(W, r)
  /\ \A s \in Sockets, c \in Codes :
       LET W == roomCreateAI(World, s, c)
       IN connected[s] /\ FreeRoomIds(World) # {} =>
            /\ getRoom(W, c) # NoRoom
            /\ W.heap[getRoom(W, c)].ai
            /\ RoundOneStarted(W, getRoom(W, c))

\* a lobby room of one member, 70 s old, with a second socket ready to join
C13_Witness ==
  \E s \in Sockets, c \in Codes :
    LET r == getRoom(World, c)
    IN /\ connected[s] /\ r # NoRoom /\ ~JoinFails(c)
       /\ s \notin PlayerIds(heap[r]) /\ heap[r].idle
       /\ RoundOneStarted(roomJoin(World, s, c), r)

\* C14 (as claimed): whenever a room is playing with its round timer armed,
\* its deadline, which is what every snapshot broadcast then carries, is set
\* (the start of the round plus 30 s); whenever the room is not playing its
\* deadline is null.
C14_DeadlineSetWhileRoundRuns ==
  \A r \in RoomIds :
    heap[r].used =>
      /\ heap[r].status = "playing" /\ heap[r].roundTimer = "armed" => heap[r].deadline = "set"
      /\ heap[r].status # "playing" => heap[r].deadline = "null"

\* C15 (as claimed): a handler that resolves a round without a match does not
\* start the next round in the same step: it announces no round and arms no
\* round timer, so that nothing can be submitted for the next round before
\* the reveal pause is over.
C15_After(W) ==
  \A r \in RoomIds :
    Resolved(W, r) /\ ~ClaimMatch(LastEntry(W, r).pairs) =>
      /\ EventsOf(W, "game:round") = {}
      /\ W.heap[r].roundTimer # "armed"

C15_PauseBeforeNextRound == AfterEveryResolver(C15_After)

\* the room object socket s's game:rematch:ready acts on, when it is a live
\* room in the won status; NoRoom otherwise
WonRoomOf(s) ==
  LET r == getRoom(World, currentRoom[s])
  IN IF r # NoRoom /\ ~heap[r].closing /\ heap[r].status = "won" THEN r ELSE NoRoom

\* the handler that left W restarted room object r
Restarted(W, r) ==
  /\ RoundOneStarted(W, r)
  /\ W.heap[r].winnerRound = 0
  /\ W.heap[r].rematchReady = {}
  /\ \E e \in EventsOf(W, "game:restart") : e.room = r

\* C16: in a won AI room one rematch-ready vote of the human restarts the
\* game: status playing, history and submissions empty, winnerRound null,
\* ballot empty, round 1 announced and its round timer armed.
C16_AiRematchOnOneVote ==
  \A s \in Sockets :
    LET r == WonRoomOf(s)
    IN connected[s] /\ r # NoRoom /\ heap[r].ai /\ s \in PlayerIds(heap[r])
       => Restarted(gameRematchReady(World, s), r)

\* an AI room won in round 2, whose human can vote
C16_Witness ==
  \E s \in Sockets :
    LET r == WonRoomOf(s)
    IN /\ connected[s] /\ r # NoRoom /\ heap[r].ai /\ s \in PlayerIds(heap[r])
       /\ heap[r].winnerRound = 2 /\ Len(heap[r].history) = 2
       /\ Restarted(gameRematchReady(World, s), r)

\* C17 (as claimed): a won human-pair room restarts only once both of its
\* members have voted: a vote that restarts it is cast when the other member
\* has voted already; votes of one member alone leave it won with a ballot of
\* size 1; the second member's vote restarts it at round 1 with empty
\* history, empty submissions and a fresh round timer.
C17_RematchNeedsBothMembers ==
  \A s \in Sockets :
    LET r == WonRoomOf(s)
        W == gameRematchReady(World, s)
    IN connected[s] /\ r # NoRoom /\ ~heap[r].ai =>
         /\ W.heap[r].status = "playing" =>
              PlayerIds(heap[r]) \subseteq heap[r].rematchReady \cup {s}
         /\ s \in PlayerIds(heap[r]) /\ heap[r].rematchReady \subseteq {s} =>
              /\ W.heap[r].status = "won"
              /\ W.heap[r].rematchReady = {s}
              /\ W.heap[r].history = heap[r].history
              /\ W.heap[r].roundTimer = heap[r].roundTimer
         /\ s \in PlayerIds(heap[r]) /\ (PlayerIds(heap[r]) \ {s}) \subseteq heap[r].rematchReady
              /\ PlayerIds(heap[r]) \ {s} # {}
            => Restarted(W, r)

\* C17, the votes of the members of the room only
C17_MembersVotes ==
  \A s \in Sockets :
    LET r == WonRoomOf(s)
        W == gameRematchReady(World, s)
    IN connected[s] /\ r # NoRoom /\ ~heap[r].ai /\ s \in PlayerIds(heap[r])
       /\ heap[r].rematchReady \subseteq PlayerIds(heap[r]) =>
         IF heap[r].rematchReady \subseteq {s}
         THEN /\ W.heap[r].status = "won"
              /\ W.heap[r].rematchReady = {s}
              /\ W.heap[r].history = heap[r].history
              /\ W.heap[r].roundTimer = heap[r].roundTimer
         ELSE Restarted(W, r)

\* C18: a rematch-ready vote received while the connection's room is not won,
\* is closing or does not exist is ignored: it changes no field of any room
\* (ballot, status, history, timers, lastActivity) and emits no event.
C18_LateVoteIgnored ==
  \A s \in Sockets :
    connected[s] /\ WonRoomOf(s) = NoRoom =>
      /\ NothingChanged(gameRematchReady(World, s))
      /\ gameRematchReady(World, s).emitted = << >>

\* a member of a playing human-pair room, 70 s idle, in round 2 votes
C18_Witness ==
  \E s \in Sockets :
    LET r == getRoom(World, currentRoom[s])
    IN /\ connected[s] /\ r # NoRoom /\ ~heap[r].closing /\ ~heap[r].ai
       /\ heap[r].status = "playing" /\ Len(heap[r].history) = 1
       /\ s \in PlayerIds(heap[r]) /\ heap[r].idle
       /\ NothingChanged(gameRematchReady(World, s))

\* room object o is in the registry, not closing, not won, and 70 s have
\* passed since its lastActivity: the AFK sweep closes it when it runs
Sweepable(o) ==
  /\ heap[o].used /\ \E c \in Codes : rooms[c] = o
  /\ ~heap[o].closing /\ heap[o].status # "won" /\ heap[o].idle

AfkSweepEnabled == (\E o \in RoomIds : Sweepable(o)) /\ WithinBounds(afkSweep(World))

\* setInterval runs the sweep every 5 s: weak fairness of the sweep that has
\* a room to close
AfkFairness == []<>(~AfkSweepEnabled) \/ []<><<AfkSweep>>_vars

AfkFairSpec == Init /\ [][Next]_vars /\ AfkFairness

\* the handler that left W closed room object o for inactivity
ClosedForInactivity(W, o) ==
  /\ W.rooms[heap[o].code] = NoRoom
  /\ W.heap[o].closing
  /\ W.heap[o].roundTimer = "null" /\ W.heap[o].afkTimer = "null"
  /\ \E e \in EventsOf(W, "room:closed") : e.room = o /\ e.text = AfkText

\* the round timer callback that left W touched neither lastActivity nor
\* the inactivity timer of any room
TimeoutIsNoActivity(W, botWord) ==
  \A r \in RoomIds :
    W.heap[r].idle = heap[r].idle /\ W.heap[r].afkTimer = heap[r].afkTimer

\* C19: a room that is not won and whose last qualifying activity is a full
\* inactivity window old is closed by the sweep, and by its inactivity timer
\* when that fires, with the inactivity reason, and leaves the registry, in
\* human-pair and AI mode; a round timeout that resolves a round never counts
\* as activity; and under the sweep's fairness such a room does not stay:
\* it is closed, unless activity, a win or a leave comes first.
C19_IdleRoomEventuallyClosed ==
  /\ [](\A o \in RoomIds :
          Sweepable(o) =>
            /\ ClosedForInactivity(afkSweep(World), o)
            /\ heap[o].afkTimer = "armed" => ClosedForInactivity(afkTimerFire(World, o), o))
  /\ [](AfterEveryTimerReveal(TimeoutIsNoActivity))
  /\ \A o \in RoomIds : Sweepable(o) ~> ~Sweepable(o)

\* an AI room, never submitted to, whose round 1 the timer resolved with
\* "(no guess)" for the human, 70 s after its creation
C19_Witness ==
  \E o \in RoomIds :
    /\ Sweepable(o) /\ heap[o].ai /\ heap[o].afkTimer = "null"
    /\ Len(heap[o].history) = 1 /\ heap[o].history[1].pairs[1].word = NoGuess
    /\ heap[o].roundTimer = "armed"
    /\ ClosedForInactivity(afkSweep(World), o)

\* the handler that left W closed room object r, which was not closing
ClosedBy(W, r) == heap[r].used /\ ~heap[r].closing /\ W.heap[r].closing

\* C20 (as claimed): a room is closed for inactivity only when a full
\* inactivity window has passed since its last qualifying activity
\* (creation, join, accepted submission): whatever room an inactivity timer
\* that fires, or the sweep, closes has a lastActivity 70 s old.
C20_NoEarlyInactivityClose ==
  /\ \A o \in RoomIds :
       heap[o].used /\ heap[o].afkTimer = "armed" /\ heap[o].idle =>
         \A r \in RoomIds : ClosedBy(afkTimerFire(World, o), r) => heap[r].idle
  /\ \A r \in RoomIds : ClosedBy(afkSweep(World), r) => heap[r].idle

\* ---------------------------------------------------------------- C21
\* a room object that closeRoom has been through: marked closing and out of
\* the registry
TornDown(o) ==
  /\ heap[o].used
  /\ heap[o].closing
  /\ \A c \in Codes : rooms[c] # o

\* C21: once a room is torn down (inactivity, leave or disconnect) it is out
\* of the registry, neither of its timers is armed, and no handler or timer
\* callback that runs later changes the room
C21_NoStateAfterTeardown ==
  \A o \in RoomIds :
    TornDown(o) =>
      /\ heap[o].roundTimer # "armed"
      /\ heap[o].afkTimer # "armed"
      /\ \A k \in BagToSet(pending), w \in BotWords :
           k.room = o => Resumed(World, k, w).heap[o] = heap[o]

\* ---------------------------------------------------------------- C23
\* C23: room creation never takes a code that is in the registry: it leaves
\* the registry entry of every live room in place, and no two live rooms
\* carry the same code
C23_CreationKeepsLiveEntries ==
  /\ \A o1 \in RoomIds, o2 \in RoomIds :
       (/\ o1 # o2
        /\ heap[o1].used /\ ~heap[o1].closing
        /\ heap[o2].used /\ ~heap[o2].closing)
       => heap[o1].code # heap[o2].code
  /\ \A o \in RoomIds :
       (heap[o].used /\ ~heap[o].closing) => rooms[heap[o].code] = o

\* ---------------------------------------------------------------- C24
\* C24: whatever still refers to a code refers to the room it was given
\* for: a connection whose currentRoom is a registered code is a member of
\* the room registered under it, a pending deferred close names a room that
\* is closing, and an armed timer of a room object names that object's own
\* registry entry
C24_FreedCodeNotReusedWhileReferenced ==
  \A c \in Codes :
    rooms[c] # NoRoom =>
      /\ \A s \in Sockets :
           (connected[s] /\ currentRoom[s] = c) => s \in PlayerIds(heap[rooms[c]])
      /\ \A d \in BagToSet(deferred) :
           d.code = c => heap[rooms[c]].closing
      /\ \A o \in RoomIds :
           (/\ heap[o].used
            /\ heap[o].code = c
            /\ (heap[o].roundTimer = "armed" \/ heap[o].afkTimer = "armed"))
           => rooms[c] = o

\* ---------------------------------------------------------------- C29
\* a room of the registry that is not closing
LiveRoom(o) == heap[o].used /\ ~heap[o].closing /\ rooms[heap[o].code] = o

\* the round timer of o has fired and its callback is suspended at the await
MidResolution(o) ==
  /\ heap[o].roundTimer = "fired"
  /\ \E k \in BagToSet(pending) : k.room = o /\ k.kind = "timer"

\* C29: startRound leaves every slot of the room empty and its round timer
\* armed; a live room in lobby or won has no armed round timer, and a live
\* room that is playing has its round timer armed unless the timer has
\* fired and its callback has not finished resolving the round
C29_OneRoundTimerWhilePlaying ==
  \A o \in RoomIds :
    LiveRoom(o) =>
      /\ heap[o].status \in {"lobby", "won"} => heap[o].roundTimer # "armed"
      /\ (heap[o].status = "playing" /\ ~MidResolution(o)) => heap[o].roundTimer = "armed"
      /\ heap[o].status = "playing" =>
           LET W == startRound(World, heap[o].code)
           IN /\ \A i \in Ids : W.heap[o].submissions[i] = Unset
              /\ W.heap[o].roundTimer = "armed"

\* a live room won on the submit path: the timer armed by startRound is gone
C29_Witness ==
  \E o \in RoomIds :
    /\ LiveRoom(o)
    /\ heap[o].status = "won"
    /\ heap[o].roundTimer = "null"
    /\ Len(heap[o].history) > 0

\* ---------------------------------------------------------------- C27
\* C27: in a room that is not closing, no handler is suspended on an AI
\* request issued in a round that is over (resolved or restarted), and the
\* word a request of a finished round returns is not put into the bot slot
\* of the round that runs when it returns
C27_NoRequestAcrossRounds ==
  \A k \in BagToSet(pending) :
    /\ ~heap[k.room].closing => ~k.stale
    /\ (k.stale /\ ~heap[k.room].closing) =>
         \A w \in BotWords :
           maybeMakeBotSubmission(World, k.room, w).heap[k.room].submissions[Bot]
             = heap[k.room].submissions[Bot]

\* ---------------------------------------------------------------- C28
\* the events a handler sent before its first game:reveal
BeforeReveal(seq) ==
  LET at == {i \in 1 .. Len(seq) : seq[i].ev = "game:reveal"}
      n == IF at = {} THEN Len(seq) ELSE (CHOOSE i \in at : \A j \in at : i <= j) - 1
  IN SubSeq(seq, 1, n)

\* the server accepts word from s as a submission of the running round
WordAccepted(s, word) ==
  /\ CanSubmit(s)
  /\ WordRefused(heap[getRoom(World, currentRoom[s])], Trim(word)) = ""

\* C28: until the reveal nothing the server sends depends on the word a
\* player has submitted in the running round: the room:update snapshot is the
\* same whatever the slots hold, and whichever accepted word a member
\* submits, the events its game:submit sends before a game:reveal (ack,
\* game:waiting) are the same
C28_SubmissionPrivateUntilReveal ==
  /\ \A c \in Codes, s \in Sockets, w \in RawWords :
       rooms[c] # NoRoom =>
         snapshot([World EXCEPT !.heap[rooms[c]].submissions[s] = Trim(w)], c)
           = snapshot(World, c)
  /\ \A s \in Sockets, w1 \in RawWords, w2 \in RawWords :
       (WordAccepted(s, w1) /\ WordAccepted(s, w2)) =>
         BeforeReveal(gameSubmit(World, s, w1).emitted)
           = BeforeReveal(gameSubmit(World, s, w2).emitted)

\* a member's word is in its slot, the partner's slot is empty and the
\* partner could still submit: the round is open and the word is not revealed
C28_Witness ==
  \E o \in RoomIds, s \in Sockets, p \in Sockets :
    /\ LiveRoom(o) /\ heap[o].status = "playing" /\ ~heap[o].ai
    /\ s # p /\ {s, p} \subseteq PlayerIds(heap[o])
    /\ heap[o].submissions[s] = "pear"
    /\ heap[o].submissions[p] = Unset
    /\ WordAccepted(p, "apple")

\* ---------------------------------------------------------------- C22
\* what C22 asks of the state W left by a leave or a disconnect of s, for
\* the live room o that s is a member of: o is marked closing, its other
\* human member is sent the partner-left notice, and the close that removes
\* o from the registry is scheduled
ClosedByLeaver(W, s, o) ==
  /\ W.heap[o].closing
  /\ \A p \in PlayerIds(heap[o]) \ {s, Bot} :
       \E e \in EventsOf(W, "partner:left:modal") : e.sock = p
  /\ \E d \in BagToSet(W.deferred) : d.code = heap[o].code

\* C22: a leave (room:leave, game:return:lobby) or a disconnect of a
\* connection closes every live room the connection is a member of, also a
\* room it was in before it created or joined another one
C22_LeaverClosesEveryRoom ==
  \A s \in Sockets, o \in RoomIds :
    (connected[s] /\ LiveRoom(o) /\ s \in PlayerIds(heap[o])) =>
      /\ \A t \in LeaveTexts : ClosedByLeaver(notifyPartnerAndClose(World, s, t), s, o)
      /\ ClosedByLeaver(disconnect(World, s), s, o)

\* ---------------------------------------------------------------- C30
\* the rounds of the history in which no word is the sentinel
ValidRounds(room) ==
  {h \in 1 .. Len(room.history) :
     \A p \in 1 .. Len(room.history[h].pairs) : room.history[h].pairs[p].word # NoGuess}

\* the human's and the bot's word of the most recent valid round, if any
ContextPair(room) ==
  IF ValidRounds(room) = {} THEN [prevHuman |-> Unset, prevBot |-> Unset]
  ELSE LET h == CHOOSE x \in ValidRounds(room) : \A y \in ValidRounds(room) : y <= x
           word(S) == room.history[h].pairs[CHOOSE p \in S : TRUE].word
           n == Len(room.history[h].pairs)
       IN [prevHuman |-> word({p \in 1 .. n : room.history[h].pairs[p].id # Bot}),
           prevBot   |-> word({p \in 1 .. n : room.history[h].pairs[p].id = Bot})]

\* C30: the previous human word and the previous bot word of an AI request
\* are those of the most recent round in which neither word is the
\* sentinel; "(no guess)" is in no request
C30_ContextIsLastValidPair ==
  /\ \A k \in BagToSet(pending) :
       k.req.prev_human # NoGuess /\ k.req.prev_bot # NoGuess
  /\ \A o \in RoomIds :
       (LiveRoom(o) /\ heap[o].ai /\ heap[o].status = "playing") =>
         /\ AiRequest(heap[o]).prev_human = ContextPair(heap[o]).prevHuman
         /\ AiRequest(heap[o]).prev_bot = ContextPair(heap[o]).prevBot

\* ---------------------------------------------------------------- C25
\* the lower-cased non-sentinel words of the completed rounds
HistoryWords(room) ==
  {ToLower(room.history[h].pairs[p].word) :
     <<h, p>> \in {<<h, p>> \in (1 .. Len(room.history)) \X (1 .. 2) :
                     /\ p <= Len(room.history[h].pairs)
                     /\ room.history[h].pairs[p].word # NoGuess}}

\* the requests that the step which left W has sent, retries aside
Issued(W) ==
  {k \in BagToSet(W.pending) :
     /\ k.attempt = 0
     /\ CopiesIn(k, W.pending) > CopiesIn(k, pending)
     /\ ~(k.stale /\ BagIn([k EXCEPT !.stale = FALSE], pending))}

\* request body q is made of the completed rounds of room and of nothing
\* else: the context pair is null or the words of the last round, the
\* exclude list is the words of the history
BuiltFromHistory(q, room) ==
  /\ q.exclude = HistoryWords(room)
  /\ \/ q.prev_human = Unset /\ q.prev_bot = Unset
     \/ /\ Len(room.history) > 0
        /\ q.prev_human = getPrevRoundWords(room).prevHuman
        /\ q.prev_bot = getPrevRoundWords(room).prevBot
  /\ Len(room.history) = 0 => (q.prev_human = Unset /\ q.prev_bot = Unset)

\* every request that W's step has sent is made of the history W holds
RequestsFromHistory(W) == \A k \in Issued(W) : BuiltFromHistory(k.req, W.heap[k.room])

\* C25: every AI request, when it is sent, is made of the completed rounds
\* only (context pair from the history, exclude list the words of the
\* history at that time), and it is the same whatever word the human has
\* submitted in the running round
C25_RequestBuiltFromHistory ==
  /\ \A s \in Sockets, w \in RawWords :
       connected[s] => RequestsFromHistory(gameSubmit(WorldOfRequests, s, w))
  /\ \A s \in Sockets, w1 \in RawWords, w2 \in RawWords :
       (WordAccepted(s, w1) /\ WordAccepted(s, w2)) =>
         {k.req : k \in Issued(gameSubmit(WorldOfRequests, s, w1))}
           = {k.req : k \in Issued(gameSubmit(WorldOfRequests, s, w2))}
  /\ \A o \in RoomIds :
       (heap[o].used /\ heap[o].roundTimer = "armed") =>
         RequestsFromHistory(roundTimerFire(WorldOfRequests, o))
  /\ \A k \in BagToSet(pending) :
       /\ RequestsFromHistory(aiFetchFails(WorldOfRequests, k))
       /\ \A c \in Choices : RequestsFromHistory(aiFetchReturns(WorldOfRequests, k, c))

\* ---------------------------------------------------------------- C26
\* a fetch of a request of room object o, sent by a handler of the given
\* kind, can settle
FetchEnabled(o, kind) ==
  \E k \in BagToSet(pending) :
    /\ k.room = o /\ k.kind = kind
    /\ \/ WithinBounds(aiFetchFails(WorldOfRequests, k))
       \/ \E c \in Choices : WithinBounds(aiFetchReturns(WorldOfRequests, k, c))

FetchSettles(o, kind) ==
  \E k \in BagToSet(pending) :
    /\ k.room = o /\ k.kind = kind
    /\ (AiFetchFails(k) \/ \E c \in Choices : AiFetchReturns(k, c))

TimerSendsEnabled(o) ==
  heap[o].used /\ heap[o].roundTimer = "armed"
    /\ WithinBounds(roundTimerFire(WorldOfRequests, o))

\* Weak fairness, room object by room object: an armed round timer fires,
\* and every fetch settles, with a reply or with a failure (postJSON aborts
\* it after abortMs)
AiFairness ==
  \A o \in RoomIds :
    /\ \/ []<>(~TimerSendsEnabled(o))
       \/ []<><<RoundTimerSends(o)>>_vars
    /\ \A kind \in {"timer", "submit"} :
         \/ []<>(~FetchEnabled(o, kind))
         \/ []<><<FetchSettles(o, kind)>>_vars

AiFairSpec == Init /\ [][AiNext]_vars /\ AiFairness

\* where the call of maybeMakeBotSubmission that k stands for has got to
FetchRank(k) ==
  2 * (CASE k.phase = "first" -> 0 [] k.phase = "second" -> 1 [] OTHER -> 2) + k.attempt

\* the step that left W has sent no error to anyone
NoErrorSent(W) == EventsOf(W, "ack:error") = {} /\ EventsOf(W, "room:closed") = {}

\* the outcome W of a fetch of k's request: the same request again or the
\* next one of the call, or the handler going on with a word of the service
\* or the default word in the bot slot; no error is sent
SettledQuietly(W, k) ==
  /\ NoErrorSent(W)
  /\ \/ \E k2 \in BagToSet(W.pending) :
          /\ W = Reissue(WorldOfRequests, k, k2)
          /\ FetchRank(k2) > FetchRank(k)
          /\ k2.attempt > 0 => k2.req = k.req
     \/ \E w \in BotWords : W = Resumed(WorldOfRequests, k, w)

\* C26: whatever a fetch of the AI service ends in, no error is sent to the
\* player, a request is sent at most twice (one retry), the call ends with a
\* word of the service or the default word in the bot slot, and the round
\* is resolved
C26_AiFailureNeverSurfaces ==
  /\ [](\A k \in BagToSet(pending) :
          /\ k.attempt <= 1
          /\ SettledQuietly(aiFetchFails(WorldOfRequests, k), k)
          /\ \A c \in Choices : SettledQuietly(aiFetchReturns(WorldOfRequests, k, c), k))
  /\ \A r \in RoomIds, n \in 0 .. (MaxRounds - 1) :
       (Playing(r) /\ heap[r].ai /\ Len(heap[r].history) = n)
         ~> (~Playing(r) \/ Len(heap[r].history) # n)

\* the request of the catch block has failed once: the call is on its last
\* fetch, after two failures of an earlier request
C26_Witness ==
  \E k \in BagToSet(pending) :
    /\ k.phase = "catch" /\ k.attempt = 1
    /\ Playing(k.room) /\ ~k.stale

\* ---------------------------------------------------------------- C31
\* C31: the rematch ballot of a room is empty unless the room is won, it
\* holds members of the room only, and every restart leaves it empty
C31_BallotOnlyWhileWonOfMembers ==
  /\ \A o \in RoomIds :
       heap[o].used =>
         /\ heap[o].status # "won" => heap[o].rematchReady = {}
         /\ heap[o].rematchReady \subseteq PlayerIds(heap[o])
  /\ \A s \in Sockets :
       LET r == WonRoomOf(s)
           W == gameRematchReady(World, s)
       IN (connected[s] /\ r # NoRoom /\ W.heap[r].status = "playing") =>
            W.heap[r].rematchReady = {}

\* C31 without the membership of the voters
C31_BallotOnlyWhileWon ==
  /\ \A o \in RoomIds :
       (heap[o].used /\ heap[o].status # "won") => heap[o].rematchReady = {}
  /\ \A s \in Sockets :
       LET r == WonRoomOf(s)
           W == gameRematchReady(World, s)
       IN (connected[s] /\ r # NoRoom /\ W.heap[r].status = "playing") =>
            W.heap[r].rematchReady = {}

\* ---------------------------------------------------------------- C32
\* P holds of the state left by every handler and callback that can run now
AfterEveryHandler(P(_)) ==
  /\ \A s \in Sockets, c \in Codes :
       connected[s] =>
         /\ FreeRoomIds(World) # {} => (P(roomCreate(World, s, c)) /\ P(roomCreateAI(World, s, c)))
         /\ P(roomJoin(World, s, c))
  /\ \A s \in Sockets :
       connected[s] =>
         /\ \A w \in RawWords : P(gameSubmit(World, s, w))
         /\ P(gameRematchReady(World, s))
         /\ \A t \in LeaveTexts : P(notifyPartnerAndClose(World, s, t))
         /\ P(disconnect(World, s))
  /\ \A k \in BagToSet(pending), w \in BotWords : P(Resumed(World, k, w))
  /\ \A o \in RoomIds :
       /\ (heap[o].used /\ heap[o].roundTimer = "armed") => P(roundTimerFire(World, o))
       /\ (heap[o].used /\ heap[o].afkTimer = "armed" /\ heap[o].idle) => P(afkTimerFire(World, o))
  /\ \A d \in BagToSet(deferred) : P(deferredClose(World, d))
  /\ P(afkSweep(World))

\* the last room:update that the step which left W sent to the room of code c
\* carries the snapshot of the room as W holds it
ShownAtEnd(W, c) ==
  LET at == {i \in 1 .. Len(W.emitted) :
               W.emitted[i].ev = "room:update" /\ W.emitted[i].chan = c}
  IN /\ at # {}
     /\ W.emitted[CHOOSE i \in at : \A j \in at : j <= i].snap = snapshot(W, c)

\* a room of the registry that is not closing and whose snapshot the step
\* changed has been sent a room:update with the snapshot the step ends in
ChangesBroadcast(W) ==
  \A c \in Codes :
    (/\ W.rooms[c] # NoRoom
     /\ ~W.heap[W.rooms[c]].closing
     /\ snapshot(W, c) # snapshot(World, c))
    => ShownAtEnd(W, c)

\* C32: whenever a handler or callback changes a field of a live room that
\* the snapshot shows (status, players, history, winnerRound, rematchReady,
\* deadline), it sends the room, before it ends or is suspended, a
\* room:update whose snapshot holds the values it leaves
C32_ChangeThenRoomUpdate == AfterEveryHandler(ChangesBroadcast)

\* a vote that restarts a won human-pair room: history, status, winnerRound
\* and ballot change in one handler
C32_Witness ==
  \E s \in Sockets :
    LET r == WonRoomOf(s)
        W == gameRematchReady(World, s)
    IN /\ connected[s] /\ r # NoRoom /\ ~heap[r].ai
       /\ W.heap[r].status = "playing"
       /\ snapshot(W, heap[r].code) # snapshot(World, heap[r].code)

\* C33: a room that re-enters playing through a rematch is not closed for
\* inactivity before a full inactivity window has elapsed since the restart,
\* in human-pair and in AI mode, however long it had stayed won: the restart
\* leaves lastActivity at the restart's time, so that the sweep that runs
\* right after the restart does not close the room.
C33_RestartOpensFullWindow ==
  \A s \in Sockets :
    LET r == WonRoomOf(s)
        W == gameRematchReady(World, s)
    IN (connected[s] /\ r # NoRoom /\ Restarted(W, r)) =>
         /\ ~W.heap[r].idle
         /\ ~afkSweep(W).heap[r].closing

\* the same for human-pair rooms only, where the restarting vote calls bumpAfk
C33_HumanRestartOpensFullWindow ==
  \A s \in Sockets :
    LET r == WonRoomOf(s)
        W == gameRematchReady(World, s)
    IN (connected[s] /\ r # NoRoom /\ ~heap[r].ai /\ Restarted(W, r)) =>
         /\ ~W.heap[r].idle
         /\ ~afkSweep(W).heap[r].closing
         /\ W.heap[r].afkTimer = "armed"

\* a human-pair room, idle for a full window while won, that the second vote restarts
C33_HumanWitness ==
  \E s \in Sockets :
    LET r == WonRoomOf(s)
        W == gameRematchReady(World, s)
    IN connected[s] /\ r # NoRoom /\ ~heap[r].ai /\ heap[r].idle /\ Restarted(W, r)

\* room object o is in the registry, not closing, and won
LiveWon(o) == LiveRoom(o) /\ heap[o].status = "won"

\* the handler that left W kept room object o won and open
StaysWon(W, o) == W.heap[o].status = "won" /\ ~W.heap[o].closing

\* the handler that left W was the leave or disconnect of a connection whose
\* currentRoom named room object o, and marked o closing
LeftBy(W, o, s) ==
  /\ W.heap[o].closing
  /\ currentRoom[s] = heap[o].code /\ W.currentRoom[s] = NoCode

WonLeftByRematchOrLeave(W) ==
  \A o \in RoomIds :
    LiveWon(o) =>
      \/ StaysWon(W, o)
      \/ Restarted(W, o)
      \/ \E s \in Sockets : LeftBy(W, o, s)

WonLeftByRematchOrMember(W) ==
  \A o \in RoomIds :
    LiveWon(o) =>
      \/ StaysWon(W, o)
      \/ Restarted(W, o)
      \/ \E s \in PlayerIds(heap[o]) \cap Sockets : LeftBy(W, o, s)

\* C34: a won room is never closed for inactivity: neither its inactivity
\* timer nor the sweep closes it, however long it is idle; and a handler takes
\* it out of the won status only by a rematch or by the leave or disconnect
\* of a member.
C34_WonNeverClosedForInactivity ==
  /\ \A o \in RoomIds :
       LiveWon(o) =>
         /\ StaysWon(afkSweep(World), o)
         /\ heap[o].afkTimer = "armed" => StaysWon(afkTimerFire(World, o), o)
  /\ AfterEveryHandler(WonLeftByRematchOrMember)

\* the same, the leave or disconnect being that of any connection whose
\* currentRoom names the room
C34_WonClosedOnlyByLeave ==
  /\ \A o \in RoomIds :
       LiveWon(o) =>
         /\ StaysWon(afkSweep(World), o)
         /\ heap[o].afkTimer = "armed" => StaysWon(afkTimerFire(World, o), o)
  /\ AfterEveryHandler(WonLeftByRematchOrLeave)

\* a won room, idle for a full window with its inactivity timer armed
C34_Witness ==
  \E o \in RoomIds :
    /\ LiveWon(o) /\ heap[o].idle /\ heap[o].afkTimer = "armed"
    /\ StaysWon(afkSweep(World), o) /\ StaysWon(afkTimerFire(World, o), o)

\* the slots of room object o are two distinct humans, or one human and the bot
TwoSlots(o) ==
  /\ Len(heap[o].players) = 2
  /\ heap[o].players[1] # heap[o].players[2]
  /\ heap[o].players[1] \in Sockets
  /\ IF heap[o].ai THEN heap[o].players[2] = Bot ELSE heap[o].players[2] \in Sockets

\* C35: in every reachable state a room whose status is playing or won has
\* exactly two occupied slots (two humans, or one human and the bot), and a
\* room in the lobby status is a human-pair room with exactly one member.
C35_SlotsByStatus ==
  \A o \in RoomIds :
    heap[o].used =>
      /\ heap[o].status \in {"lobby", "playing", "won"}
      /\ heap[o].status \in {"playing", "won"} => TwoSlots(o)
      /\ heap[o].status = "lobby" =>
           /\ ~heap[o].ai
           /\ Len(heap[o].players) = 1 /\ heap[o].players[1] \in Sockets

\* a lobby room whose creator has sent room:join for it and is still alone
C35_Witness ==
  \E o \in RoomIds, s \in Sockets :
    /\ LiveRoom(o) /\ heap[o].status = "lobby" /\ heap[o].players = <<s>>
    /\ LET W == roomJoin(World, s, heap[o].code)
       IN W.heap[o].status = "lobby" /\ W.heap[o].players = <<s>>

\* socket s's game:submit of word is accepted by the human-pair room object r
SubmitsToPair(s, r, word) ==
  /\ CanSubmit(s) /\ r = getRoom(World, currentRoom[s]) /\ ~heap[r].ai
  /\ WordRefused(heap[r], Trim(word)) = ""

\* C36: in a human-pair room the submission path resolves a round only when
\* both distinct members have an accepted word in that round: an accepted
\* submission resolves the round exactly when the partner's word is pending,
\* and then reveals the submitter's word of this submission next to it;
\* otherwise it replaces the submitter's pending word, whether or not there
\* was one, and resolves nothing.
C36_PairResolvesOnBothWords ==
  \A s \in Sockets, word \in RawWords :
    LET r == getRoom(World, currentRoom[s])
        W == gameSubmit(World, s, word)
        partnerId == getPartnerId(heap[r], s)
    IN SubmitsToPair(s, r, word) =>
         /\ partnerId \in Sockets \ {s}
         /\ PlayerIds(heap[r]) = {s, partnerId}
         /\ Resolved(W, r) <=> heap[r].submissions[partnerId] # Unset
         /\ Resolved(W, r) =>
              /\ \E e \in EventsOf(W, "game:reveal") : e.room = r /\ e.via = "submit"
              /\ {LastEntry(W, r).pairs[p] : p \in 1 .. 2} =
                   {[id |-> s, word |-> Trim(word)],
                    [id |-> partnerId, word |-> heap[r].submissions[partnerId]]}
         /\ ~Resolved(W, r) =>
              /\ W.heap[r].history = heap[r].history
              /\ W.heap[r].status = "playing"
              /\ W.heap[r].submissions =
                   [heap[r].submissions EXCEPT ![s] = Trim(word)]
              /\ EventsOf(W, "game:reveal") = {}

\* a member who has a pending word submits another one while the partner has
\* none: the word is replaced and the round stays open
C36_Witness ==
  \E s \in Sockets, word \in RawWords :
    LET r == getRoom(World, currentRoom[s])
        W == gameSubmit(World, s, word)
    IN /\ SubmitsToPair(s, r, word)
       /\ heap[r].submissions[s] \notin {Unset, Trim(word)}
       /\ ~Resolved(W, r)
       /\ W.heap[r].submissions[s] = Trim(word)

\* room object o has been marked closing or is no longer in the registry
ClosedOrRemoved(o) ==
  heap[o].used /\ (heap[o].closing \/ \A c \in Codes : rooms[c] # o)

\* the handler that left W revealed nothing of, and changed nothing in the
\* game of, a room that was closing or removed when it ran
ClosedRoomsUntouched(W) ==
  \A o \in RoomIds :
    ClosedOrRemoved(o) =>
      /\ \A e \in EventsOf(W, "game:reveal") \cup EventsOf(W, "game:win") : e.room # o
      /\ W.heap[o].history = heap[o].history
      /\ W.heap[o].status = heap[o].status
      /\ W.heap[o].submissions = heap[o].submissions

\* C37: once a room has been marked closing or removed from the registry, no
\* game:reveal or game:win is emitted for it and its history, status and
\* submissions no longer change, whichever handler runs, the resumption of a
\* submit handler or round timer callback that was suspended waiting for the
\* AI word when the room was closed included.
C37_ClosedRoomStaysAsItWas == AfterEveryHandler(ClosedRoomsUntouched)

\* the same of the handlers that start in such a state, the resumptions of
\* suspended ones left aside
C37_NewHandlersLeaveClosedRooms ==
  /\ \A s \in Sockets, c \in Codes :
       connected[s] =>
         /\ FreeRoomIds(World) # {} =>
              /\ ClosedRoomsUntouched(roomCreate(World, s, c))
              /\ ClosedRoomsUntouched(roomCreateAI(World, s, c))
         /\ ClosedRoomsUntouched(roomJoin(World, s, c))
  /\ \A s \in Sockets :
       connected[s] =>
         /\ \A w \in RawWords : ClosedRoomsUntouched(gameSubmit(World, s, w))
         /\ ClosedRoomsUntouched(gameRematchReady(World, s))
         /\ \A t \in LeaveTexts : ClosedRoomsUntouched(notifyPartnerAndClose(World, s, t))
         /\ ClosedRoomsUntouched(disconnect(World, s))
  /\ \A o \in RoomIds :
       /\ (heap[o].used /\ heap[o].roundTimer = "armed") =>
            ClosedRoomsUntouched(roundTimerFire(World, o))
       /\ (heap[o].used /\ heap[o].afkTimer = "armed" /\ heap[o].idle) =>
            ClosedRoomsUntouched(afkTimerFire(World, o))
  /\ \A d \in BagToSet(deferred) : ClosedRoomsUntouched(deferredClose(World, d))
  /\ ClosedRoomsUntouched(afkSweep(World))

\* the entry the handler that left W appended to the history of room object r
\* pairs word with the bot
BotPair(W, r, word) ==
  \E p \in 1 .. Len(LastEntry(W, r).pairs) :
    LastEntry(W, r).pairs[p] = [id |-> Bot, word |-> word]

\* game:submit, accepted in the AI room r whose bot slot is empty, left W:
\* nothing is resolved, the handler waits for the AI word, and the round
\* timer, untouched, fires into the same wait
WaitsForBot(W, s, r) ==
  /\ ~Resolved(W, r)
  /\ EventsOf(W, "game:reveal") = {}
  /\ W.heap[r].submissions[Bot] = Unset
  /\ \E k \in BagToSet(W.pending) : k.kind = "submit" /\ k.room = r /\ k.sock = s /\ ~k.stale
  /\ W.heap[r].roundTimer = heap[r].roundTimer
  /\ heap[r].roundTimer = "armed" =>
       LET V == roundTimerFire(W, r)
       IN /\ V.heap[r].history = W.heap[r].history
          /\ \E k \in BagToSet(V.pending) : k.kind = "timer" /\ k.room = r

\* C38: in an AI room the submission path never resolves a round before the
\* bot slot holds a word: an accepted human submission that finds the slot
\* empty resolves nothing and waits for the AI request, the round timer
\* staying armed and able to fire during the wait; the round is resolved when
\* the handler resumes with the AI's word or the fallback in the slot, or at
\* once when the slot already holds a word, and the entry pairs that word
\* with the bot.
C38_AiRoundWaitsForBotWord ==
  /\ \A s \in Sockets, word \in RawWords :
       LET r == getRoom(World, currentRoom[s])
           W == gameSubmit(World, s, word)
       IN (CanSubmit(s) /\ heap[r].ai /\ WordRefused(heap[r], Trim(word)) = "") =>
            IF heap[r].submissions[Bot] = Unset
            THEN WaitsForBot(W, s, r)
            ELSE Resolved(W, r) /\ BotPair(W, r, heap[r].submissions[Bot])
  /\ \A k \in BagToSet(pending), w \in BotWords :
       LET W == gameSubmitResume(World, k, w)
       IN (k.kind = "submit" /\ Resolved(W, k.room)) =>
            /\ w # Unset /\ BotPair(W, k.room, w)
            /\ \E e \in EventsOf(W, "game:reveal") : e.room = k.room /\ e.via = "submit"

\* a playing AI room whose submit handler waits for the AI word with the
\* round timer armed, and resolves the round when it resumes
C38_Witness ==
  \E k \in BagToSet(pending), w \in BotWords :
    /\ k.kind = "submit" /\ ~k.stale
    /\ LiveRoom(k.room) /\ heap[k.room].ai /\ heap[k.room].status = "playing"
    /\ heap[k.room].submissions[Bot] = Unset
    /\ heap[k.room].roundTimer = "armed"
    /\ Resolved(gameSubmitResume(World, k, w), k.room)
    /\ BotPair(gameSubmitResume(World, k, w), k.room, w)
====
